---------------------------- MODULE Spec2Model ----------------------------
(***************************************************************************)
(* FlashLog write-ahead log: the record codec (src/wal.go), the disk       *)
(* segment manager (package segmentmanager, WriteActive variant) and the   *)
(* mutex-based WALWriter (src/wal_writer.go).                              *)
(*                                                                         *)
(* Bytes are integers 0..255.  A uint32 that is stored in a file is kept   *)
(* as its four little-endian bytes, because TLC's integers are 32-bit      *)
(* signed and cannot hold 0xFFFFFFFF.                                      *)
(***************************************************************************)
EXTENDS Integers, Sequences, FiniteSets, TLC

VARIABLES
    \* ---- codec harness (Encode then Decode on one sink) ----
    c_pc,       \* "start" | "encoded" | "rewound" | "decoded"
    c_log,      \* the record handed to Encode
    c_file,     \* the seekable sink
    c_err,      \* what Encode returned
    c_out,      \* what Decode returned
    \* ---- decoder drivers (records encoded in a row, damaged frames, raw sources) ----
    d_pc,       \* "off" | "encode" | "damage" | "rewind" | "decode" | "done"
    d_logs,     \* the records handed to Encode, in order
    d_base,     \* the sink before the first Encode
    d_file,     \* the sink, then the source Decode reads
    d_errs,     \* what each Encode returned
    d_outs,     \* what each Decode returned
    d_mut,      \* the damage done to the frame: <<"none">>, <<"flip", bit>> or <<"trunc", i>>
    \* ---- size check of Encode, on lengths alone ----
    e_pc,       \* "off" | "start" | "returned"
    e_keyLen,   \* len(l.key) as <<high 16 bits, low 16 bits>>
    e_valLen,   \* len(l.value), likewise
    e_ret,      \* what the size check of Encode decided
    \* ---- NewDiskSegmentManager on a directory ----
    n_pc,       \* "off" | "start" | "returned"
    n_dir,      \* the directory before construction
    n_res,      \* what NewDiskSegmentManager returned, and the directory after
    \* ---- diskSegmentManager called directly by client threads ----
    t_dir,      \* the directory: name -> [kind, data]
    t_mu,       \* s.mu: the thread holding it, or 0
    t_active,   \* s.active: [name, open, append, pos]
    t_activeID, \* s.activeID
    t_max,      \* s.maxSegmentSize
    t_pc,       \* where each thread is in its call
    t_call,     \* the call each thread is making
    t_ret,      \* what the last call of each thread returned
    t_done,     \* calls each thread has completed
    t_faults,   \* I/O calls made to fail so far
    t_hist,     \* the events so far, oldest first (read by the properties only)
    \* ---- WALReader ----
    r_pc,       \* "off" | "open" | "iter" | "ended"
    r_dir,      \* the WAL directory
    r_file,     \* w.f
    r_out,      \* the records yielded so far
    r_err,      \* the error NewWALReader returned or Iter yielded
    \* ---- SkipList ----
    k_sl,       \* the skip list: head.forward, levels, size and the nodes
    k_map,      \* the map the same Put and Delete calls give (properties only)
    k_n,        \* Put and Delete calls made so far
    k_dels,     \* Delete calls made so far
    \* ---- the single-file WALWriter of src/wal/wal_writer.go ----
    o_ch,       \* w.ch: the records queued
    o_done,     \* w.done is closed
    o_closed,   \* w.closed
    o_wpc,      \* where loop is: "select" | "drain" | "exited"
    o_pc,       \* where each producer's Write call is
    o_res,      \* what each Write call returned
    o_cpc,      \* where each Close call is
    o_file,     \* WAL.log
    o_fopen,    \* w.f has not been closed
    cap,        \* capacity of w.ch (NewWALWriter's buffer argument)
    \* ---- WALWriter (src/wal_writer.go) ----
    mu,         \* w.mu: the thread holding it, or NoThread
    closed,     \* w.closed
    wg,         \* w.wg counter
    ch,         \* w.ch: queued requests, oldest first
    chClosed,   \* close(w.ch) has run
    doneClosed, \* close(w.done) has run
    reqDone,    \* req.done of each request: a channel of capacity 1
    panicked,   \* "none", or the runtime panic that ended the process
    \* ---- producers: goroutines calling Write ----
    pc,         \* "idle" | "locked" | "select" | "await"
    calls,      \* Write calls each producer has started
    result,     \* what each Write call returned ("none": not yet)
    \* ---- goroutines calling Close ----
    cpc,        \* "idle" | "locked" | "wgwait" | "closech" | "waitdone" | "smclose" | "returned"
    \* ---- worker: w.loop ----
    wpc,        \* "recv" | "writeactive" | "rotate" | "fn" | "sync" | "signal" | "exited"
    wreq,       \* the request being served
    hasErr,     \* loop's hasErr
    werr,       \* what WriteActive returned
    \* ---- diskSegmentManager ----
    smMu,       \* s.mu: the thread holding it, or NoThread
    active,     \* s.active: the open file (content, cursor, append mode)
    activeOpen, \* s.active has not been closed
    activeID,   \* s.activeID
    durable,    \* content of the active file as of its last successful fsync
    faults,     \* I/O calls made to fail so far
    \* ---- history (read by the properties only) ----
    passed,     \* the call observed closed = false under w.mu
    sawClosed,  \* the call observed closed = true under w.mu
    enqSeq,     \* calls in the order they were enqueued
    deqSeq,     \* calls in the order the worker dequeued them
    signals,    \* completion signals sent to each call
    encErr,     \* what the call's Encode returned ("none": not run)
    waErr,      \* what the call's WriteActive returned ("none": not yet)
    tick,       \* count of worker file events
    wStart,     \* tick at which the call's fn began, 0: never
    wEnd,       \* tick at which the call's fn ended
    syncAt,     \* tick at which the fsync of the call's WriteActive succeeded
    frameOff,   \* offset of the active file at which the call's frame begins
    frameSeg,   \* s.activeID when the call's fn began
    firstClose, \* the Close call that set closed
    parked,     \* calls waiting to enqueue on a full queue when closed was set
    viaDone,    \* the call returned through the <-w.done case
    smCloses,   \* calls of s.Close made
    chCloses,   \* close(w.ch) executed
    lateWrite   \* a WriteActive started after s.Close

cvars == <<c_pc, c_log, c_file, c_err, c_out>>
dvars == <<d_pc, d_logs, d_base, d_file, d_errs, d_outs, d_mut>>
evars == <<e_pc, e_keyLen, e_valLen, e_ret>>
nvars == <<n_pc, n_dir, n_res>>
tvars == <<t_dir, t_mu, t_active, t_activeID, t_max, t_pc, t_call, t_ret, t_done, t_faults,
           t_hist>>
rvars == <<r_pc, r_dir, r_file, r_out, r_err>>
kvars == <<k_sl, k_map, k_n, k_dels>>
ovars == <<o_ch, o_done, o_closed, o_wpc, o_pc, o_res, o_cpc, o_file, o_fopen>>
\* the variables of the segment store and reader drivers
qvars == <<cap>>
xvars == <<nvars, tvars, rvars, kvars, ovars, qvars>>
wvars == <<mu, closed, wg, ch, chClosed, doneClosed, reqDone, panicked>>
pvars == <<pc, calls, result>>
lvars == <<wpc, wreq, hasErr, werr>>
svars == <<smMu, active, activeOpen, activeID, durable, faults>>
hvars == <<passed, sawClosed, enqSeq, deqSeq, signals, encErr, waErr, tick, wStart, wEnd,
           syncAt, frameOff, frameSeg, firstClose, parked, viaDone,
           smCloses, chCloses, lateWrite>>
vars == <<cvars, dvars, evars, xvars, wvars, pvars, cpc, lvars, svars, hvars>>

(***************************************************************************)
(* Bounds of the model.                                                    *)
(***************************************************************************)
MaxLen == 2             \* longest generated key / value of the codec harness
NumProducers == 2       \* goroutines calling Write
MaxCalls == 2           \* Write calls per producer
NumClosers == 2         \* goroutines calling Close
Buffer == 1             \* capacity of w.ch (NewWALWriter's buffer argument)
MaxFaults == 1          \* I/O calls that may fail in one run

(***************************************************************************)
(* Byte strings and Go slices.                                             *)
(***************************************************************************)
\* a Go []byte: nil and empty are different values of equal length 0
Slice(b) == [nil |-> FALSE, b |-> b]
NilSlice == [nil |-> TRUE, b |-> <<>>]

\* bytes.Equal: a nil slice equals an empty one
BytesEqual(s, t) == s.b = t.b

\* binary.LittleEndian.PutUint32 for values below 2^31
PutUint32(n) == <<n % 256, (n \div 256) % 256, (n \div 65536) % 256, (n \div 16777216) % 256>>

\* a stored uint32 as the pair <<high 16 bits, low 16 bits>>
U32Pair(b) == <<b[3] + 256 * b[4], b[1] + 256 * b[2]>>
NatPair(n) == <<n \div 65536, n % 65536>>
PairGt(x, y) == x[1] > y[1] \/ (x[1] = y[1] /\ x[2] > y[2])
\* faulty variant of the comparison totalLen < 5: never true
PairLtNever(x, y) == FALSE
PairLt(x, y) == PairGt(y, x)
\* binary.LittleEndian.Uint32, defined when the value is known to be small
Uint32(b) == b[1] + 256 * b[2] + 65536 * b[3] + 16777216 * b[4]

(***************************************************************************)
(* hash/crc32, IEEE polynomial 0xEDB88320 (reflected), table driven as     *)
(* crc32.simpleUpdate: crc = tab[byte(crc) ^ v] ^ (crc >> 8).              *)
(* A running crc is the pair <<high 16 bits, low 16 bits>> while the table *)
(* is built and four little-endian bytes afterwards.                       *)
(***************************************************************************)
RECURSIVE Xor(_, _)
Xor(a, b) ==
    IF a = 0 THEN b
    ELSE IF b = 0 THEN a
    ELSE ((a + b) % 2) + 2 * Xor(a \div 2, b \div 2)

\* the xor of two 4-bit values, tabulated (f @@ <<>> is f, written out in full)
XorTab == [ab \in (0..15) \X (0..15) |-> Xor(ab[1], ab[2])] @@ <<>>
XorByte(a, b) == XorTab[<<a % 16, b % 16>>] + 16 * XorTab[<<a \div 16, b \div 16>>]

IEEEHi == 60856     \* 0xEDB8
IEEELo == 33568     \* 0x8320

\* one step of simpleMakeTable: crc = (crc >> 1) ^ poly if crc is odd, else crc >> 1
TableStep(c) ==
    LET hi == c[1] \div 2
        lo == (c[2] \div 2) + (c[1] % 2) * 32768
    IN  IF c[2] % 2 = 1 THEN <<Xor(hi, IEEEHi), Xor(lo, IEEELo)>> ELSE <<hi, lo>>

RECURSIVE TableSteps(_, _)
TableSteps(c, n) ==
    IF n = 0 THEN c
    ELSE LET s == TableStep(c) IN IF s[1] < 0 THEN s ELSE TableSteps(s, n - 1)

\* a table entry as the four little-endian bytes of the crc
TableEntry(c) == <<c[2] % 256, c[2] \div 256, c[1] % 256, c[1] \div 256>>

\* crc32.IEEETable, as simpleMakeTable(IEEE) fills it
ieeeTable == [n \in 0..255 |-> TableEntry(TableSteps(<<0, n>>, 8))] @@ <<>>

\* the loop body of simpleUpdate with t = tab[byte(crc) ^ v]
updateWith(t, crc) ==
    <<XorByte(t[1], crc[2]), XorByte(t[2], crc[3]), XorByte(t[3], crc[4]), t[4]>>

simpleUpdateByte(crc, v) == updateWith(ieeeTable[XorByte(crc[1], v)], crc)

\* the for loop of simpleUpdate over p[i..]: the crc after byte i is computed
\* (as the one element of a set) before the loop goes on to byte i + 1
RECURSIVE simpleUpdate(_, _, _)
simpleUpdate(crc, p, i) ==
    IF i > Len(p) THEN crc
    ELSE CHOOSE r \in {simpleUpdate(c, p, i + 1) : c \in {simpleUpdateByte(crc, p[i])}} : TRUE

\* the final complement, ^crc
Complement(c) == <<255 - c[1], 255 - c[2], 255 - c[3], 255 - c[4]>>

\* crc32.ChecksumIEEE(p), also what a crc32.NewIEEE() hasher fed p returns from Sum32
ChecksumIEEE(p) == Complement(simpleUpdate(<<255, 255, 255, 255>>, p, 1))

(***************************************************************************)
(* Program constants and error values of src/wal.go.                       *)
(***************************************************************************)
\* faulty variant of the sentinel: zero
InvalidCRCZero == <<0, 0, 0, 0>>

InvalidCRC == <<255, 255, 255, 255>>
MaxEntrySize == 16777216
OperationPut == 0
OperationDelete == 1

ErrNil == "nil"
ErrCorruptWAL == "corrupt WAL"
ErrTooLarge == "entry too large"
ErrIO == "io error"
EOF == "EOF"
ErrUnexpectedEOF == "unexpected EOF"
Panic == "panic: index out of range"

\* The zero Log, and a Log as a producer builds it (crc is not set by producers)
ZeroCRC == <<0, 0, 0, 0>>
NewLog(op, key, value) == [op |-> op, key |-> key, value |-> value, crc |-> ZeroCRC]

(***************************************************************************)
(* os.File as Encode uses it: content, cursor, and whether it was opened   *)
(* with O_APPEND (then every write lands at the end of the file, whatever  *)
(* the cursor says).                                                       *)
(***************************************************************************)
NewFile(data, append) == [data |-> data, pos |-> 0, append |-> append]
EmptyFile == [data |-> <<>>, pos |-> 0, append |-> FALSE]

FileWrite(f, bs) ==
    IF f.append
    THEN [f EXCEPT !.data = f.data \o bs, !.pos = Len(f.data) + Len(bs)]
    ELSE LET n == Len(f.data)
             pad == IF f.pos > n THEN [i \in 1..(f.pos - n) |-> 0] ELSE <<>>
             before == SubSeq(f.data, 1, f.pos) \o pad
             after == SubSeq(f.data, f.pos + Len(bs) + 1, n)
         IN  [f EXCEPT !.data = before \o bs \o after, !.pos = f.pos + Len(bs)]

FileSeekStart(f, off) == [f EXCEPT !.pos = off]

(***************************************************************************)
(* The goroutines of the writer model and the records they submit.         *)
(***************************************************************************)
Producers == 1..NumProducers
Closers == 1..NumClosers
Calls == Producers \X (1..MaxCalls)

\* the record the k-th Write call of producer p submits: Put(<<p>>, <<k>>)
LogOf(call) == NewLog(OperationPut, Slice(<<call[1]>>), Slice(<<call[2]>>))

(***************************************************************************)
(* Log.Encode (src/wal.go:40-112).  The sink's I/O calls are numbered in   *)
(* the order Encode makes them; failAt = k makes the k-th call return an   *)
(* error (0: none fails).  A failing call leaves the file as it was.       *)
(*    1 placeholder CRC   2 TOTAL_LEN   3 TYPE   4 KEY_LEN   5 KEY         *)
(*    6 VAL_LEN   7 VALUE   8 Seek(0, Current)   9 Seek(frame start)       *)
(*   10 CRC patch   11 Seek(pos)                                           *)
(* Writes 1..7 follow one another at the cursor (or at the end of an       *)
(* O_APPEND file), so the first k of them are one write of their           *)
(* concatenation.                                                          *)
(***************************************************************************)
EncodeCalls == 1..11

\* uint32 addition on <<high 16 bits, low 16 bits>>: the sum modulo 2^32
Add32(x, y) ==
    <<(x[1] + y[1] + ((x[2] + y[2]) \div 65536)) % 65536, (x[2] + y[2]) % 65536>>

\* payloadLen := 1 + 4 + keyLen + 4 + valLen; totalLen := 4 + payloadLen, all uint32
totalLen32(keyLen, valLen) ==
    Add32(NatPair(4),
          Add32(Add32(Add32(Add32(NatPair(1), NatPair(4)), keyLen), NatPair(4)), valLen))

\* the size check of line 55, on uint32(len(l.key)) and uint32(len(l.value))
TooLarge(keyLen, valLen) == PairGt(totalLen32(keyLen, valLen), NatPair(MaxEntrySize))

\* lines 46-61 for a record of the given lengths: the size check, then the
\* CRC placeholder written to the sink
EncodeHead(keyLen, valLen, w) ==
    IF TooLarge(keyLen, valLen)
    THEN [f |-> w, err |-> ErrTooLarge, totalLen |-> totalLen32(keyLen, valLen)]
    ELSE [f |-> FileWrite(w, InvalidCRC), err |-> ErrNil,
          totalLen |-> totalLen32(keyLen, valLen)]

\* faulty variant: the length of the payload, without the TOTAL_LEN field itself
TotalLenNoSelf(l) == 1 + 4 + Len(l.key.b) + 4 + Len(l.value.b)

\* totalLen of lines 49-53
TotalLen(l) == 4 + (1 + 4 + Len(l.key.b) + 4 + Len(l.value.b))

\* what lines 64-91 stream through mw: TOTAL_LEN | TYPE | KEY_LEN | KEY | VAL_LEN | VALUE
EncodeBody(l) ==
    PutUint32(TotalLen(l)) \o <<l.op % 256>> \o PutUint32(Len(l.key.b)) \o l.key.b
        \o PutUint32(Len(l.value.b)) \o l.value.b

\* the bytes of the first k writes (lines 59-91)
Streamed(l, k) ==
    (IF k >= 1 THEN InvalidCRC ELSE <<>>)
        \o (IF k >= 2 THEN PutUint32(TotalLen(l)) ELSE <<>>)
        \o (IF k >= 3 THEN <<l.op % 256>> ELSE <<>>)
        \o (IF k >= 4 THEN PutUint32(Len(l.key.b)) ELSE <<>>)
        \o (IF k >= 5 THEN l.key.b ELSE <<>>)
        \o (IF k >= 6 THEN PutUint32(Len(l.value.b)) ELSE <<>>)
        \o (IF k >= 7 THEN l.value.b ELSE <<>>)

\* crc.Sum32() of the hasher of line 46 after the writes of lines 64-91.  The
\* checksums of the writer's records are computed once and looked up.
WriterSums == [c \in Calls |-> ChecksumIEEE(EncodeBody(LogOf(c)))] @@ <<>>
Sum32(l) ==
    IF \E c \in Calls : l = LogOf(c)
    THEN WriterSums[CHOOSE c \in Calls : l = LogOf(c)]
    ELSE ChecksumIEEE(EncodeBody(l))

\* lines 93-109: the file after the seek back (stage 1), the CRC patch (stage 2)
\* and the seek forward (stage 3); w7 is the file after the seven writes
Patched(l, w7, stage) ==
    LET back == FileSeekStart(w7, w7.pos - TotalLen(l) - 4)
    IN  IF stage = 1 THEN back
        ELSE IF stage = 2 THEN FileWrite(back, Sum32(l))
        ELSE FileSeekStart(FileWrite(back, Sum32(l)), w7.pos)

Encode(l, w, failAt) ==
    IF TooLarge(NatPair(Len(l.key.b)), NatPair(Len(l.value.b)))
    THEN [f |-> w, err |-> ErrTooLarge]
    ELSE IF failAt \in 1..7 THEN [f |-> FileWrite(w, Streamed(l, failAt - 1)), err |-> ErrIO]
    ELSE IF failAt \in 8..9 THEN [f |-> FileWrite(w, Streamed(l, 7)), err |-> ErrIO]
    ELSE IF failAt = 10 THEN [f |-> Patched(l, FileWrite(w, Streamed(l, 7)), 1), err |-> ErrIO]
    ELSE IF failAt = 11 THEN [f |-> Patched(l, FileWrite(w, Streamed(l, 7)), 2), err |-> ErrIO]
    ELSE [f |-> Patched(l, FileWrite(w, Streamed(l, 7)), 3), err |-> ErrNil]

(***************************************************************************)
(* Decode (src/wal.go:114-181) on a reader r = [data, pos].                *)
(***************************************************************************)
\* faulty variant: a short read is passed on as io.ErrUnexpectedEOF
cleanEOFKeep(err) == err

cleanEOF(err) == IF err = EOF \/ err = ErrUnexpectedEOF THEN EOF ELSE err

\* io.ReadFull(r, buf) with len(buf) = n, as binary.Read and Decode call it
ReadFull(r, n) ==
    LET avail == Len(r.data) - r.pos
    IN  IF n = 0 THEN [r |-> r, b |-> <<>>, err |-> ErrNil]
        ELSE IF avail <= 0 THEN [r |-> r, b |-> <<>>, err |-> EOF]
        ELSE IF avail < n
             THEN [r |-> [r EXCEPT !.pos = Len(r.data)],
                   b |-> SubSeq(r.data, r.pos + 1, Len(r.data)),
                   err |-> ErrUnexpectedEOF]
        ELSE [r |-> [r EXCEPT !.pos = r.pos + n],
              b |-> SubSeq(r.data, r.pos + 1, r.pos + n),
              err |-> ErrNil]

NoLog == [op |-> 0, key |-> NilSlice, value |-> NilSlice, crc |-> ZeroCRC]

\* the payload parse, lines 151-180; payload = the TOTAL_LEN field + the rest.
\* binary.LittleEndian.Uint32 of a slice shorter than 4 bytes panics.
DecodePayload(payload, storedCRC) ==
    LET n == Len(payload)
        keyLenB == SubSeq(payload, 6, 9)
        posV == 9 + Uint32(keyLenB)
        valLenB == SubSeq(payload, posV + 1, posV + 4)
    IN  IF n < 9 THEN [log |-> NoLog, err |-> Panic]
        ELSE IF PairGt(U32Pair(keyLenB), NatPair(n - 9)) THEN [log |-> NoLog, err |-> ErrCorruptWAL]
        ELSE IF n < posV + 4 THEN [log |-> NoLog, err |-> Panic]
        ELSE IF PairGt(U32Pair(valLenB), NatPair(n - (posV + 4)))
             THEN [log |-> NoLog, err |-> ErrCorruptWAL]
        ELSE [log |-> [op |-> payload[5],
                       key |-> Slice(SubSeq(payload, 10, posV)),
                       value |-> Slice(SubSeq(payload, posV + 5, posV + 4 + Uint32(valLenB))),
                       crc |-> storedCRC],
              err |-> ErrNil]

\* the reader after n more bytes were consumed
Advance(r, n) == [r EXCEPT !.pos = r.pos + n]

Decode(r) ==
    LET rd1 == ReadFull(r, 4)
        rd2 == ReadFull(Advance(r, 4), 4)
        rd3 == ReadFull(Advance(r, 8), Uint32(rd2.b) - 4)
        ret(rr, e) == [log |-> NoLog, err |-> e, r |-> rr]
    IN  IF rd1.err # ErrNil THEN ret(rd1.r, cleanEOF(rd1.err))
        ELSE IF rd1.b = InvalidCRC THEN ret(rd1.r, EOF)
        ELSE IF rd2.err # ErrNil THEN ret(rd2.r, cleanEOF(rd2.err))
        ELSE IF PairGt(U32Pair(rd2.b), NatPair(MaxEntrySize)) \/ PairLt(U32Pair(rd2.b), NatPair(5))
             THEN ret(rd2.r, ErrCorruptWAL)
        ELSE IF rd3.err # ErrNil THEN ret(rd3.r, cleanEOF(rd3.err))
        ELSE IF ChecksumIEEE(rd2.b \o rd3.b) # rd1.b THEN ret(rd3.r, ErrCorruptWAL)
        ELSE [DecodePayload(rd2.b \o rd3.b, rd1.b) EXCEPT !.err = @] @@ [r |-> rd3.r]

(***************************************************************************)
(* The writer and its segment store.                                       *)
(***************************************************************************)

P(p) == <<"P", p>>
C(c) == <<"C", c>>
Worker == <<"W", 0>>
NoThread == <<"-", 0>>

ErrWALClosed == "file already closed"
ErrNTooLarge == "n too large"
ErrStat == "failed to stat active file"
ErrSync == "failed to sync active file"

\* WithMaxSegmentSize(40): two 19-byte frames fit in a segment, a third does not
maxSegmentSize == 40

\* Log.Size(): the encoded frame length, TOTAL_LEN + 4
Size(l) == 4 + 4 + 1 + 4 + Len(l.key.b) + 4 + Len(l.value.b)

\* an unrecovered panic ends the process: no goroutine takes another step
Running == panicked = "none"

\* the Write call producer p is in (or has last made)
Cur(p) == <<p, calls[p]>>

\* whether one more I/O call may be made to fail
FaultChoices == IF faults < MaxFaults THEN {FALSE, TRUE} ELSE {FALSE}
EncodeFaultChoices == IF faults < MaxFaults THEN {0} \cup EncodeCalls ELSE {0}

\* NewDiskSegmentManager: on a fresh directory RotateSegment creates
\* segment-0001.log with os.Create; on a directory that holds segment-0001.log
\* (here: empty) the file is opened with O_APPEND|O_RDWR
StartupFiles == {NewFile(<<>>, FALSE), NewFile(<<>>, TRUE)}

CodecOff ==
    /\ c_pc = "off"
    /\ c_log = NoLog
    /\ c_file = EmptyFile
    /\ c_err = "none"
    /\ c_out = [log |-> NoLog, err |-> "none", r |-> EmptyFile]

\* the decoder drivers and the size check are idle
DecodeOff ==
    /\ d_pc = "off"
    /\ d_logs = <<>>
    /\ d_base = EmptyFile
    /\ d_file = EmptyFile
    /\ d_errs = <<>>
    /\ d_outs = <<>>
    /\ d_mut = <<"none">>

SizeOff ==
    /\ e_pc = "off"
    /\ e_keyLen = <<0, 0>>
    /\ e_valLen = <<0, 0>>
    /\ e_ret = "none"

\* no constructor call under study
StartupOff ==
    /\ n_pc = "off"
    /\ n_dir = <<>>
    /\ n_res = <<>>

\* no client threads on a segment manager of their own
StoreOff ==
    /\ t_dir = <<>>
    /\ t_mu = 0
    /\ t_active = <<>>
    /\ t_activeID = 0
    /\ t_max = 0
    /\ t_pc = <<>>
    /\ t_call = <<>>
    /\ t_ret = <<>>
    /\ t_done = <<>>
    /\ t_faults = 0
    /\ t_hist = <<>>

\* no reader
ReaderOff ==
    /\ r_pc = "off"
    /\ r_dir = <<>>
    /\ r_file = EmptyFile
    /\ r_out = <<>>
    /\ r_err = "none"

\* no skip list
SkipOff ==
    /\ k_sl = <<>>
    /\ k_map = <<>>
    /\ k_n = 0
    /\ k_dels = 0

\* no single-file writer
OldWriterOff ==
    /\ o_ch = <<>>
    /\ o_done = FALSE
    /\ o_closed = FALSE
    /\ o_wpc = "off"
    /\ o_pc = <<>>
    /\ o_res = <<>>
    /\ o_cpc = <<>>
    /\ o_file = EmptyFile
    /\ o_fopen = FALSE

\* the skip list and single-file writer drivers are idle
LateOff == SkipOff /\ OldWriterOff

\* the segment store and reader drivers are idle
DriversOff == StartupOff /\ StoreOff /\ ReaderOff /\ LateOff

\* the writer after NewWALWriter(sm, capacity), with `used` of the MaxFaults
\* I/O faults spent
WriterInitFull(file, used, capacity) ==
    /\ cap = capacity
    /\ mu = NoThread
    /\ closed = FALSE
    /\ wg = 0
    /\ ch = <<>>
    /\ chClosed = FALSE
    /\ doneClosed = FALSE
    /\ reqDone = [c \in Calls |-> <<>>]
    /\ panicked = "none"
    /\ pc = [p \in Producers |-> "idle"]
    /\ calls = [p \in Producers |-> 0]
    /\ result = [c \in Calls |-> "none"]
    /\ cpc = [c \in Closers |-> "idle"]
    /\ wpc = "recv"
    /\ wreq = <<0, 0>>
    /\ hasErr = FALSE
    /\ werr = "none"
    /\ smMu = NoThread
    /\ active = file
    /\ activeOpen = TRUE
    /\ activeID = 1
    /\ durable = <<>>
    /\ faults = used
    /\ passed = [c \in Calls |-> FALSE]
    /\ sawClosed = [c \in Calls |-> FALSE]
    /\ enqSeq = <<>>
    /\ deqSeq = <<>>
    /\ signals = [c \in Calls |-> 0]
    /\ encErr = [c \in Calls |-> "none"]
    /\ waErr = [c \in Calls |-> "none"]
    /\ tick = 0
    /\ wStart = [c \in Calls |-> 0]
    /\ wEnd = [c \in Calls |-> 0]
    /\ syncAt = [c \in Calls |-> 0]
    /\ frameOff = [c \in Calls |-> 0]
    /\ frameSeg = [c \in Calls |-> 0]
    /\ firstClose = 0
    /\ parked = {}
    /\ viaDone = [c \in Calls |-> FALSE]
    /\ smCloses = 0
    /\ chCloses = 0
    /\ lateWrite = FALSE

WriterInitWith(file, used) == WriterInitFull(file, used, Buffer)

WriterInit == \E file \in StartupFiles : WriterInitWith(file, 0)

Init == WriterInit /\ CodecOff /\ DecodeOff /\ SizeOff /\ DriversOff

(***************************************************************************)
(* WALWriter.Write (src/wal_writer.go:38-57)                               *)
(***************************************************************************)
\* line 39: a new call takes w.mu
WriteLock(p) ==
    /\ Running
    /\ pc[p] = "idle"
    /\ calls[p] < MaxCalls
    /\ mu = NoThread
    /\ mu' = P(p)
    /\ calls' = [calls EXCEPT ![p] = @ + 1]
    /\ pc' = [pc EXCEPT ![p] = "locked"]
    /\ UNCHANGED <<closed, wg, ch, chClosed, doneClosed, reqDone, panicked, result,
                   cpc, lvars, svars, hvars, cvars, dvars, evars, xvars>>

\* faulty variant of lines 40-45: Write does not look at w.closed
WriteCheckNoFlag(p) ==
    /\ Running
    /\ pc[p] = "locked"
    /\ mu = P(p)
    /\ mu' = NoThread
    /\ IF FALSE
       THEN /\ result' = [result EXCEPT ![Cur(p)] = ErrWALClosed]
            /\ sawClosed' = [sawClosed EXCEPT ![Cur(p)] = TRUE]
            /\ pc' = [pc EXCEPT ![p] = "idle"]
            /\ UNCHANGED <<wg, passed>>
       ELSE /\ wg' = wg + 1
            /\ passed' = [passed EXCEPT ![Cur(p)] = TRUE]
            /\ pc' = [pc EXCEPT ![p] = "select"]
            /\ UNCHANGED <<result, sawClosed>>
    /\ UNCHANGED <<closed, ch, chClosed, doneClosed, reqDone, panicked, calls,
                   cpc, lvars, svars, cvars, dvars, evars, xvars,
                   enqSeq, deqSeq, signals, encErr, waErr, tick, wStart, wEnd, syncAt,
                   frameOff, frameSeg, firstClose, parked, viaDone, smCloses, chCloses,
                   lateWrite>>

\* lines 40-45: the closed check, wg.Add(1), Unlock
WriteCheck(p) ==
    /\ Running
    /\ pc[p] = "locked"
    /\ mu = P(p)
    /\ mu' = NoThread
    /\ IF closed
       THEN /\ result' = [result EXCEPT ![Cur(p)] = ErrWALClosed]
            /\ sawClosed' = [sawClosed EXCEPT ![Cur(p)] = TRUE]
            /\ pc' = [pc EXCEPT ![p] = "idle"]
            /\ UNCHANGED <<wg, passed>>
       ELSE /\ wg' = wg + 1
            /\ passed' = [passed EXCEPT ![Cur(p)] = TRUE]
            /\ pc' = [pc EXCEPT ![p] = "select"]
            /\ UNCHANGED <<result, sawClosed>>
    /\ UNCHANGED <<closed, ch, chClosed, doneClosed, reqDone, panicked, calls,
                   cpc, lvars, svars, cvars, dvars, evars, xvars,
                   enqSeq, deqSeq, signals, encErr, waErr, tick, wStart, wEnd, syncAt,
                   frameOff, frameSeg, firstClose, parked, viaDone, smCloses, chCloses,
                   lateWrite>>

\* a send on w.ch can proceed: the buffer has room or, on an unbuffered
\* channel, the worker stands at its receive
HasRoom == IF cap = 0 THEN ch = <<>> /\ wpc = "recv" ELSE Len(ch) < cap

\* the cases of the select of lines 51-56 that can proceed
ReadyCases ==
    (IF HasRoom \/ chClosed THEN {"send"} ELSE {})
        \cup (IF doneClosed THEN {"done"} ELSE {})

\* lines 51-56: one ready case is taken; a send on a closed channel panics;
\* the deferred wg.Done runs when the done case returns
WriteSelect(p) ==
    /\ Running
    /\ pc[p] = "select"
    /\ \E case \in ReadyCases :
        IF case = "send"
        THEN IF chClosed
             THEN /\ panicked' = "send on closed channel"
                  /\ UNCHANGED <<ch, enqSeq, pc, result, wg, viaDone>>
             ELSE /\ ch' = Append(ch, Cur(p))
                  /\ enqSeq' = Append(enqSeq, Cur(p))
                  /\ pc' = [pc EXCEPT ![p] = "await"]
                  /\ UNCHANGED <<panicked, result, wg, viaDone>>
        ELSE /\ result' = [result EXCEPT ![Cur(p)] = ErrWALClosed]
             /\ viaDone' = [viaDone EXCEPT ![Cur(p)] = TRUE]
             /\ wg' = wg - 1
             /\ pc' = [pc EXCEPT ![p] = "idle"]
             /\ UNCHANGED <<ch, enqSeq, panicked>>
    /\ UNCHANGED <<mu, closed, chClosed, doneClosed, reqDone, calls,
                   cpc, lvars, svars, cvars, dvars, evars, xvars,
                   passed, sawClosed, deqSeq, signals, encErr, waErr, tick, wStart, wEnd,
                   syncAt, frameOff, frameSeg, firstClose, parked, smCloses, chCloses,
                   lateWrite>>

\* line 53: return <-req.done, then the deferred wg.Done
WriteAwait(p) ==
    /\ Running
    /\ pc[p] = "await"
    /\ reqDone[Cur(p)] # <<>>
    /\ result' = [result EXCEPT ![Cur(p)] = Head(reqDone[Cur(p)])]
    /\ reqDone' = [reqDone EXCEPT ![Cur(p)] = Tail(@)]
    /\ wg' = wg - 1
    /\ pc' = [pc EXCEPT ![p] = "idle"]
    /\ UNCHANGED <<mu, closed, ch, chClosed, doneClosed, panicked, calls,
                   cpc, lvars, svars, hvars, cvars, dvars, evars, xvars>>

(***************************************************************************)
(* WALWriter.Close (src/wal_writer.go:59-72)                               *)
(***************************************************************************)
\* line 60
CloseLock(c) ==
    /\ Running
    /\ cpc[c] = "idle"
    /\ mu = NoThread
    /\ mu' = C(c)
    /\ cpc' = [cpc EXCEPT ![c] = "locked"]
    /\ UNCHANGED <<closed, wg, ch, chClosed, doneClosed, reqDone, panicked,
                   pvars, lvars, svars, hvars, cvars, dvars, evars, xvars>>

\* faulty variant of lines 61-66: Close closes w.done as soon as it has set
\* closed, before wg.Wait
CloseCheckSignalsDone(c) ==
    /\ Running
    /\ cpc[c] = "locked"
    /\ mu = C(c)
    /\ mu' = NoThread
    /\ IF closed
       THEN /\ cpc' = [cpc EXCEPT ![c] = "returned"]
            /\ UNCHANGED <<closed, firstClose, parked>>
       ELSE /\ closed' = TRUE
            /\ firstClose' = c
            /\ parked' = {Cur(p) : p \in {q \in Producers : pc[q] = "select" /\ ~HasRoom}}
            /\ cpc' = [cpc EXCEPT ![c] = "wgwait"]
    /\ doneClosed' = (doneClosed \/ ~closed)
    /\ UNCHANGED <<wg, ch, chClosed, reqDone, panicked,
                   pvars, lvars, svars, cvars, dvars, evars, xvars,
                   passed, sawClosed, enqSeq, deqSeq, signals, encErr, waErr, tick, wStart,
                   wEnd, syncAt, frameOff, frameSeg, viaDone, smCloses, chCloses, lateWrite>>

\* faulty variant of lines 61-66: Close does not look at closed and every
\* call goes on to shut down
CloseCheckAlways(c) ==
    /\ Running
    /\ cpc[c] = "locked"
    /\ mu = C(c)
    /\ mu' = NoThread
    /\ closed' = TRUE
    /\ firstClose' = IF closed THEN firstClose ELSE c
    /\ parked' = IF closed THEN parked
                 ELSE {Cur(p) : p \in {q \in Producers : pc[q] = "select" /\ ~HasRoom}}
    /\ cpc' = [cpc EXCEPT ![c] = "wgwait"]
    /\ UNCHANGED <<wg, ch, chClosed, doneClosed, reqDone, panicked,
                   pvars, lvars, svars, cvars, dvars, evars, xvars,
                   passed, sawClosed, enqSeq, deqSeq, signals, encErr, waErr, tick, wStart,
                   wEnd, syncAt, frameOff, frameSeg, viaDone, smCloses, chCloses, lateWrite>>

\* lines 61-66
CloseCheck(c) ==
    /\ Running
    /\ cpc[c] = "locked"
    /\ mu = C(c)
    /\ mu' = NoThread
    /\ IF closed
       THEN /\ cpc' = [cpc EXCEPT ![c] = "returned"]
            /\ UNCHANGED <<closed, firstClose, parked>>
       ELSE /\ closed' = TRUE
            /\ firstClose' = c
            /\ parked' = {Cur(p) : p \in {q \in Producers : pc[q] = "select" /\ ~HasRoom}}
            /\ cpc' = [cpc EXCEPT ![c] = "wgwait"]
    /\ UNCHANGED <<wg, ch, chClosed, doneClosed, reqDone, panicked,
                   pvars, lvars, svars, cvars, dvars, evars, xvars,
                   passed, sawClosed, enqSeq, deqSeq, signals, encErr, waErr, tick, wStart,
                   wEnd, syncAt, frameOff, frameSeg, viaDone, smCloses, chCloses, lateWrite>>

\* faulty variant of line 68: Close does not wait for the in-flight Write calls
CloseNoWait(c) ==
    /\ Running
    /\ cpc[c] = "wgwait"
    /\ cpc' = [cpc EXCEPT ![c] = "closech"]
    /\ UNCHANGED <<wvars, pvars, lvars, svars, hvars, cvars, dvars, evars, xvars>>

\* line 68: w.wg.Wait()
CloseWait(c) ==
    /\ Running
    /\ cpc[c] = "wgwait"
    /\ wg = 0
    /\ cpc' = [cpc EXCEPT ![c] = "closech"]
    /\ UNCHANGED <<wvars, pvars, lvars, svars, hvars, cvars, dvars, evars, xvars>>

\* line 69: close(w.ch); closing a closed channel panics
CloseCh(c) ==
    /\ Running
    /\ cpc[c] = "closech"
    /\ IF chClosed
       THEN /\ panicked' = "close of closed channel"
            /\ UNCHANGED <<chClosed, cpc>>
       ELSE /\ chClosed' = TRUE
            /\ cpc' = [cpc EXCEPT ![c] = "waitdone"]
            /\ UNCHANGED panicked
    /\ chCloses' = chCloses + 1
    /\ UNCHANGED <<mu, closed, wg, ch, doneClosed, reqDone,
                   pvars, lvars, svars, cvars, dvars, evars, xvars,
                   passed, sawClosed, enqSeq, deqSeq, signals, encErr, waErr, tick, wStart,
                   wEnd, syncAt, frameOff, frameSeg, firstClose, parked, viaDone, smCloses,
                   lateWrite>>

\* line 70: <-w.done
CloseWaitDone(c) ==
    /\ Running
    /\ cpc[c] = "waitdone"
    /\ doneClosed
    /\ cpc' = [cpc EXCEPT ![c] = "smclose"]
    /\ UNCHANGED <<wvars, pvars, lvars, svars, hvars, cvars, dvars, evars, xvars>>

\* line 71: w.sm.Close(), i.e. diskSegmentManager.Close: Lock, s.active.Close(), Unlock
CloseSM(c) ==
    /\ Running
    /\ cpc[c] = "smclose"
    /\ smMu = NoThread
    /\ activeOpen' = FALSE
    /\ smCloses' = smCloses + 1
    /\ cpc' = [cpc EXCEPT ![c] = "returned"]
    /\ UNCHANGED <<wvars, pvars, lvars, cvars, dvars, evars, xvars,
                   smMu, active, activeID, durable, faults,
                   passed, sawClosed, enqSeq, deqSeq, signals, encErr, waErr, tick, wStart,
                   wEnd, syncAt, frameOff, frameSeg, firstClose, parked, viaDone, chCloses,
                   lateWrite>>

(***************************************************************************)
(* WALWriter.loop (src/wal_writer.go:74-91) and                            *)
(* diskSegmentManager.WriteActive (package segmentmanager, 181-212)        *)
(***************************************************************************)
\* faulty variant of lines 77-78: hasErr is declared outside the for loop and
\* keeps its value from one request to the next
LoopRecvStaleFlag ==
    /\ Running
    /\ wpc = "recv"
    /\ ch # <<>> \/ chClosed
    /\ IF ch # <<>>
       THEN /\ wreq' = Head(ch)
            /\ ch' = Tail(ch)
            /\ deqSeq' = Append(deqSeq, Head(ch))
            /\ wpc' = "writeactive"
            /\ UNCHANGED doneClosed
       ELSE /\ doneClosed' = TRUE
            /\ wpc' = "exited"
            /\ UNCHANGED <<wreq, ch, deqSeq>>
    /\ hasErr' = hasErr
    /\ UNCHANGED <<mu, closed, wg, chClosed, reqDone, panicked, pvars, cpc, werr, svars, cvars, dvars, evars, xvars,
                   passed, sawClosed, enqSeq, signals, encErr, waErr, tick, wStart, wEnd, syncAt,
                   frameOff, frameSeg, firstClose, parked, viaDone, smCloses, chCloses,
                   lateWrite>>

\* line 77: for req := range w.ch; when the channel is closed and drained the
\* loop ends and the deferred close(w.done) of line 75 runs
LoopRecv ==
    /\ Running
    /\ wpc = "recv"
    /\ ch # <<>> \/ chClosed
    /\ IF ch # <<>>
       THEN /\ wreq' = Head(ch)
            /\ ch' = Tail(ch)
            /\ deqSeq' = Append(deqSeq, Head(ch))
            /\ wpc' = "writeactive"
            /\ UNCHANGED doneClosed
       ELSE /\ doneClosed' = TRUE
            /\ wpc' = "exited"
            /\ UNCHANGED <<wreq, ch, deqSeq>>
    /\ hasErr' = FALSE
    /\ UNCHANGED <<mu, closed, wg, chClosed, reqDone, panicked, pvars, cpc, werr, svars, cvars, dvars, evars, xvars,
                   passed, sawClosed, enqSeq, signals, encErr, waErr, tick, wStart, wEnd, syncAt,
                   frameOff, frameSeg, firstClose, parked, viaDone, smCloses, chCloses,
                   lateWrite>>

\* WriteActive lines 182-202: Lock; the size check; Stat; the rotation check.
\* RotateSegment (line 199) begins with s.mu.Lock() while WriteActive holds
\* s.mu: sync.Mutex is not reentrant, so the worker parks there ("rotate").
\* Stat of a closed file fails.  An early return runs the deferred Unlock.
WriteActiveBegin ==
    /\ Running
    /\ wpc = "writeactive"
    /\ smMu = NoThread
    /\ \E statFails \in FaultChoices :
        LET n == Size(LogOf(wreq))
            statErr == statFails \/ ~activeOpen
        IN  IF n > maxSegmentSize
            THEN /\ werr' = ErrNTooLarge
                 /\ waErr' = [waErr EXCEPT ![wreq] = ErrNTooLarge]
                 /\ wpc' = "signal"
                 /\ UNCHANGED <<smMu, faults>>
            ELSE IF statErr
            THEN /\ werr' = ErrStat
                 /\ waErr' = [waErr EXCEPT ![wreq] = ErrStat]
                 /\ wpc' = "signal"
                 /\ faults' = IF statFails THEN faults + 1 ELSE faults
                 /\ UNCHANGED smMu
            ELSE /\ smMu' = Worker
                 /\ wpc' = IF Len(active.data) + n > maxSegmentSize THEN "rotate" ELSE "fn"
                 /\ UNCHANGED <<werr, waErr, faults>>
    /\ lateWrite' = (lateWrite \/ smCloses > 0)
    /\ UNCHANGED <<wvars, pvars, cpc, wreq, hasErr, active, activeOpen, activeID, durable, cvars, dvars, evars, xvars,
                   passed, sawClosed, enqSeq, deqSeq, signals, encErr, tick, wStart, wEnd, syncAt,
                   frameOff, frameSeg, firstClose, parked, viaDone, smCloses, chCloses>>

\* WriteActive line 204, fn(s.active): the closure of loop lines 79-85
WriteActiveFn ==
    /\ Running
    /\ wpc = "fn"
    /\ smMu = Worker
    /\ \E failAt \in EncodeFaultChoices :
        \E res \in {Encode(LogOf(wreq), active, failAt)} :
            /\ res.err # ErrNil => Len(reqDone[wreq]) < 1
            /\ active' = res.f
            /\ encErr' = [encErr EXCEPT ![wreq] = res.err]
            /\ faults' = IF failAt # 0 THEN faults + 1 ELSE faults
            /\ IF res.err # ErrNil
               THEN /\ reqDone' = [reqDone EXCEPT ![wreq] = Append(@, res.err)]
                    /\ signals' = [signals EXCEPT ![wreq] = @ + 1]
                    /\ hasErr' = TRUE
               ELSE UNCHANGED <<reqDone, signals, hasErr>>
    /\ wStart' = [wStart EXCEPT ![wreq] = tick + 1]
    /\ wEnd' = [wEnd EXCEPT ![wreq] = tick + 2]
    /\ tick' = tick + 2
    /\ frameOff' = [frameOff EXCEPT ![wreq] = IF active.append THEN Len(active.data) ELSE active.pos]
    /\ frameSeg' = [frameSeg EXCEPT ![wreq] = activeID]
    /\ wpc' = "sync"
    /\ UNCHANGED <<mu, closed, wg, ch, chClosed, doneClosed, panicked, pvars, cpc, wreq, werr,
                   smMu, activeOpen, activeID, durable, cvars, dvars, evars, xvars,
                   passed, sawClosed, enqSeq, deqSeq, waErr, syncAt, firstClose, parked, viaDone,
                   smCloses, chCloses, lateWrite>>

\* faulty variant of lines 206-211: WriteActive returns nil without calling Sync
WriteActiveNoSync ==
    /\ Running
    /\ wpc = "sync"
    /\ smMu = Worker
    /\ \E syncFails \in FaultChoices :
        IF syncFails
        THEN /\ werr' = ErrSync
             /\ waErr' = [waErr EXCEPT ![wreq] = ErrSync]
             /\ faults' = faults + 1
             /\ UNCHANGED <<durable, syncAt>>
        ELSE /\ werr' = ErrNil
             /\ waErr' = [waErr EXCEPT ![wreq] = ErrNil]
             /\ UNCHANGED <<durable, syncAt, faults>>
    /\ tick' = tick + 1
    /\ smMu' = NoThread
    /\ wpc' = "signal"
    /\ UNCHANGED <<wvars, pvars, cpc, wreq, hasErr, active, activeOpen, activeID, cvars, dvars, evars, xvars,
                   passed, sawClosed, enqSeq, deqSeq, signals, encErr, wStart, wEnd,
                   frameOff, frameSeg, firstClose, parked, viaDone, smCloses, chCloses,
                   lateWrite>>

\* WriteActive lines 206-211: s.active.Sync(), return, deferred Unlock
WriteActiveSync ==
    /\ Running
    /\ wpc = "sync"
    /\ smMu = Worker
    /\ \E syncFails \in FaultChoices :
        IF syncFails
        THEN /\ werr' = ErrSync
             /\ waErr' = [waErr EXCEPT ![wreq] = ErrSync]
             /\ faults' = faults + 1
             /\ UNCHANGED <<durable, syncAt>>
        ELSE /\ werr' = ErrNil
             /\ waErr' = [waErr EXCEPT ![wreq] = ErrNil]
             /\ durable' = active.data
             /\ syncAt' = [syncAt EXCEPT ![wreq] = tick + 1]
             /\ UNCHANGED faults
    /\ tick' = tick + 1
    /\ smMu' = NoThread
    /\ wpc' = "signal"
    /\ UNCHANGED <<wvars, pvars, cpc, wreq, hasErr, active, activeOpen, activeID, cvars, dvars, evars, xvars,
                   passed, sawClosed, enqSeq, deqSeq, signals, encErr, wStart, wEnd,
                   frameOff, frameSeg, firstClose, parked, viaDone, smCloses, chCloses,
                   lateWrite>>

\* faulty variant of lines 87-89: the worker goes on to the next request
\* without sending the completion
LoopSignalNoSend ==
    /\ Running
    /\ wpc = "signal"
    /\ wpc' = "recv"
    /\ UNCHANGED <<wvars, pvars, cpc, wreq, hasErr, werr, svars, hvars, cvars, dvars, evars,
                   xvars>>

\* loop lines 87-89: if !hasErr { req.done <- err }
LoopSignal ==
    /\ Running
    /\ wpc = "signal"
    /\ ~hasErr => Len(reqDone[wreq]) < 1
    /\ IF ~hasErr
       THEN /\ reqDone' = [reqDone EXCEPT ![wreq] = Append(@, werr)]
            /\ signals' = [signals EXCEPT ![wreq] = @ + 1]
       ELSE UNCHANGED <<reqDone, signals>>
    /\ wpc' = "recv"
    /\ UNCHANGED <<mu, closed, wg, ch, chClosed, doneClosed, panicked, pvars, cpc,
                   wreq, hasErr, werr, svars, cvars, dvars, evars, xvars,
                   passed, sawClosed, enqSeq, deqSeq, encErr, waErr, tick, wStart, wEnd, syncAt,
                   frameOff, frameSeg, firstClose, parked, viaDone, smCloses, chCloses,
                   lateWrite>>

\* one step of a goroutine calling Write, of one calling Close, of the worker
ProducerStep(p) == WriteLock(p) \/ WriteCheck(p) \/ WriteSelect(p) \/ WriteAwait(p)
CloserStep(c) ==
    \/ CloseLock(c) \/ CloseCheck(c) \/ CloseWait(c)
    \/ CloseCh(c) \/ CloseWaitDone(c) \/ CloseSM(c)
WorkerStep == LoopRecv \/ WriteActiveBegin \/ WriteActiveFn \/ WriteActiveSync \/ LoopSignal

Next ==
    \/ \E p \in Producers : ProducerStep(p)
    \/ \E c \in Closers : CloserStep(c)
    \/ WorkerStep

Spec == Init /\ [][Next]_vars

\* the Go scheduler runs every goroutine that can take a step
Fairness ==
    /\ \A p \in Producers : WF_vars(ProducerStep(p))
    /\ \A c \in Closers : WF_vars(CloserStep(c))
    /\ WF_vars(WorkerStep)

\* the runs in which no I/O call fails: every segment-store operation succeeds
QuietInit ==
    (\E file \in StartupFiles : WriterInitWith(file, MaxFaults)) /\ CodecOff /\ DecodeOff /\ SizeOff
    /\ DriversOff

FairSpec == QuietInit /\ [][Next]_vars /\ Fairness

\* NewWALWriter with every queue capacity up to Buffer, an unbuffered queue
\* among them, on a freshly created segment; I/O calls may fail
QueueInit ==
    /\ \E capacity \in 0..Buffer : WriterInitFull(NewFile(<<>>, FALSE), 0, capacity)
    /\ CodecOff
    /\ DecodeOff
    /\ SizeOff
    /\ DriversOff

SpecQueue == QueueInit /\ [][Next]_vars

(***************************************************************************)
(* Codec harness: one record is encoded into an empty seekable sink, the   *)
(* sink is rewound, and one record is decoded (TestEncodeDecodeRoundTrip). *)
(***************************************************************************)
CodecBytes == {0, 97, 255}
BytesUpTo(n) == UNION {[1..k -> CodecBytes] : k \in 0..n}

\* Put("4*/-", ""): the CRC32 of its frame body is 0xFFFFFFFF
SentinelKey == <<52, 42, 47, 45>>

CodecLogs ==
    {NewLog(op, Slice(k), v) :
        op \in {OperationPut, OperationDelete},
        k \in BytesUpTo(MaxLen),
        v \in {NilSlice} \cup {Slice(b) : b \in BytesUpTo(MaxLen)}}
    \cup {NewLog(OperationPut, Slice(SentinelKey), Slice(<<>>))}

NoResult == [log |-> NoLog, err |-> "none", r |-> EmptyFile]

CodecInit ==
    /\ c_pc = "start"
    /\ c_log \in CodecLogs
    /\ c_file = EmptyFile
    /\ c_err = "none"
    /\ c_out = NoResult
    /\ DecodeOff
    /\ SizeOff
    /\ DriversOff
    /\ WriterInitWith(EmptyFile, 0)

\* tt.log.Encode(f)
CodecEncode ==
    /\ c_pc = "start"
    /\ \E res \in {Encode(c_log, c_file, 0)} :
           /\ c_file' = res.f
           /\ c_err' = res.err
    /\ c_pc' = "encoded"
    /\ UNCHANGED <<c_log, c_out, dvars, evars, xvars, wvars, pvars, cpc, lvars, svars, hvars>>

\* f.Seek(0, io.SeekStart)
CodecRewind ==
    /\ c_pc = "encoded"
    /\ c_file' = FileSeekStart(c_file, 0)
    /\ c_pc' = "rewound"
    /\ UNCHANGED <<c_log, c_err, c_out, dvars, evars, xvars, wvars, pvars, cpc, lvars, svars, hvars>>

\* got, err := Decode(f)
CodecDecode ==
    /\ c_pc = "rewound"
    /\ \E res \in {Decode(c_file)} :
           /\ c_out' = res
           /\ c_file' = res.r
    /\ c_pc' = "decoded"
    /\ UNCHANGED <<c_log, c_err, dvars, evars, xvars, wvars, pvars, cpc, lvars, svars, hvars>>

CodecNext == CodecEncode \/ CodecRewind \/ CodecDecode

SpecCodec == CodecInit /\ [][CodecNext]_vars

(***************************************************************************)
(* Records encoded in a row: up to MaxSeq records are encoded one after    *)
(* another into one positional sink, the sink is rewound to where the      *)
(* first frame began, and Decode is called once more than there are        *)
(* records (TestDecodeMultipleRecords).  The sink is an os.File opened     *)
(* without O_APPEND, so that a write lands at the cursor.                  *)
(***************************************************************************)
MaxSeq == 3

SeqLogs ==
    {NewLog(op, Slice(k), v) :
        op \in {OperationPut, OperationDelete},
        k \in {<<>>, <<97>>},
        v \in {NilSlice, Slice(<<98>>)}}
    \cup {NewLog(OperationPut, Slice(SentinelKey), Slice(<<>>))}

\* the sink before the first Encode: empty, or holding bytes with the cursor
\* at their end or inside them
SeqSinks ==
    {EmptyFile,
     [data |-> <<7, 7, 7>>, pos |-> 3, append |-> FALSE],
     [data |-> <<7, 7, 7>>, pos |-> 1, append |-> FALSE]}

SeqInit ==
    /\ d_pc = "encode"
    /\ d_logs \in UNION {[1..n -> SeqLogs] : n \in 0..MaxSeq}
    /\ d_base \in SeqSinks
    /\ d_file = d_base
    /\ d_errs = <<>>
    /\ d_outs = <<>>
    /\ d_mut = <<"none">>
    /\ CodecOff
    /\ SizeOff
    /\ DriversOff
    /\ WriterInitWith(EmptyFile, 0)

\* r.Encode(f), for the next record of the list
SeqEncode ==
    /\ d_pc = "encode"
    /\ Len(d_errs) < Len(d_logs)
    /\ \E res \in {Encode(d_logs[Len(d_errs) + 1], d_file, 0)} :
           /\ d_file' = res.f
           /\ d_errs' = Append(d_errs, res.err)
    /\ UNCHANGED <<d_pc, d_logs, d_base, d_outs, d_mut, cvars, evars, xvars,
                   wvars, pvars, cpc, lvars, svars, hvars>>

\* f.Seek(p, io.SeekStart), p the offset of the first frame
SeqRewind ==
    /\ d_pc = "encode"
    /\ Len(d_errs) = Len(d_logs)
    /\ d_file' = FileSeekStart(d_file, d_base.pos)
    /\ d_pc' = "decode"
    /\ UNCHANGED <<d_logs, d_base, d_errs, d_outs, d_mut, cvars, evars, xvars,
                   wvars, pvars, cpc, lvars, svars, hvars>>

\* got, err := Decode(f), once per record and once more
SeqDecode ==
    /\ d_pc = "decode"
    /\ \E res \in {Decode(d_file)} :
           /\ d_outs' = Append(d_outs, res)
           /\ d_file' = res.r
    /\ d_pc' = IF Len(d_outs) = Len(d_logs) THEN "done" ELSE "decode"
    /\ UNCHANGED <<d_logs, d_base, d_errs, d_mut, cvars, evars, xvars,
                   wvars, pvars, cpc, lvars, svars, hvars>>

SeqNext == SeqEncode \/ SeqRewind \/ SeqDecode

SpecSeq == SeqInit /\ [][SeqNext]_vars

(***************************************************************************)
(* Damaged frames: one record is encoded into an empty file, then either   *)
(* one bit of the frame is inverted in place or the file is truncated      *)
(* inside the frame; the file is rewound and decoded                       *)
(* (TestDecodeDetectsCorruption, TestDecodeDetectsTruncation).             *)
(***************************************************************************)
MutLogs ==
    {NewLog(op, Slice(k), v) :
        op \in {OperationPut, OperationDelete},
        k \in {<<>>, <<97>>, <<97, 0>>},
        v \in {NilSlice, Slice(<<98>>), Slice(<<0, 255>>)}}
    \cup {NewLog(OperationPut, Slice(SentinelKey), Slice(<<>>))}

\* b[0] ^= 1 << j on one byte
FlipByte(b, j) == IF (b \div (2 ^ j)) % 2 = 1 THEN b - 2 ^ j ELSE b + 2 ^ j

\* the file with bit k of its content inverted (bit 0 = lowest bit of byte 0)
FlipBit(f, k) ==
    [f EXCEPT !.data = [@ EXCEPT ![(k \div 8) + 1] = FlipByte(@, k % 8)]]

\* f.Truncate(i): the content is cut, the cursor stays
Truncate(f, i) == [f EXCEPT !.data = SubSeq(@, 1, i)]

MutInit ==
    /\ d_pc = "encode"
    /\ d_logs \in {<<l>> : l \in MutLogs}
    /\ d_base = EmptyFile
    /\ d_file = EmptyFile
    /\ d_errs = <<>>
    /\ d_outs = <<>>
    /\ d_mut = <<"none">>
    /\ CodecOff
    /\ SizeOff
    /\ DriversOff
    /\ WriterInitWith(EmptyFile, 0)

\* l.Encode(f)
MutEncode ==
    /\ d_pc = "encode"
    /\ \E res \in {Encode(d_logs[1], d_file, 0)} :
           /\ d_file' = res.f
           /\ d_errs' = <<res.err>>
    /\ d_pc' = "damage"
    /\ UNCHANGED <<d_logs, d_base, d_outs, d_mut, cvars, evars, xvars,
                   wvars, pvars, cpc, lvars, svars, hvars>>

\* one bit of the stored frame is inverted
MutFlip ==
    /\ d_pc = "damage"
    /\ \E k \in 0..(8 * Len(d_file.data) - 1) :
           /\ d_file' = FlipBit(d_file, k)
           /\ d_mut' = <<"flip", k>>
    /\ d_pc' = "rewind"
    /\ UNCHANGED <<d_logs, d_base, d_errs, d_outs, cvars, evars, xvars,
                   wvars, pvars, cpc, lvars, svars, hvars>>

\* f.Truncate(int64(i)) for 1 <= i < the frame's length
MutTruncate ==
    /\ d_pc = "damage"
    /\ \E i \in 1..(Len(d_file.data) - 1) :
           /\ d_file' = Truncate(d_file, i)
           /\ d_mut' = <<"trunc", i>>
    /\ d_pc' = "rewind"
    /\ UNCHANGED <<d_logs, d_base, d_errs, d_outs, cvars, evars, xvars,
                   wvars, pvars, cpc, lvars, svars, hvars>>

\* f.Seek(0, io.SeekStart)
MutRewind ==
    /\ d_pc = "rewind"
    /\ d_file' = FileSeekStart(d_file, 0)
    /\ d_pc' = "decode"
    /\ UNCHANGED <<d_logs, d_base, d_errs, d_outs, d_mut, cvars, evars, xvars,
                   wvars, pvars, cpc, lvars, svars, hvars>>

\* _, err := Decode(f)
MutDecode ==
    /\ d_pc = "decode"
    /\ \E res \in {Decode(d_file)} :
           /\ d_outs' = <<res>>
           /\ d_file' = res.r
    /\ d_pc' = "done"
    /\ UNCHANGED <<d_logs, d_base, d_errs, d_mut, cvars, evars, xvars,
                   wvars, pvars, cpc, lvars, svars, hvars>>

MutNext == MutEncode \/ MutFlip \/ MutTruncate \/ MutRewind \/ MutDecode

SpecMut == MutInit /\ [][MutNext]_vars

(***************************************************************************)
(* Raw sources: Decode is called once on a file whose bytes were not       *)
(* written by Encode (TestRejectsInsaneLength): the empty file, a CRC      *)
(* followed by a length and some bytes, and frames whose CRC matches a     *)
(* body that is cut short or declares lengths it does not hold.            *)
(***************************************************************************)
\* stored CRC values: ordinary ones, the sentinel and its neighbour
RawCRCs == {<<0, 0, 0, 0>>, <<17, 17, 17, 17>>, <<255, 255, 255, 254>>, <<255, 255, 255, 255>>}

\* stored TOTAL_LEN fields: 0..5, 16 MiB, 16 MiB + 1, 2^31 and 2^32 - 1
RawLens ==
    {PutUint32(n) : n \in 0..5}
    \cup {PutUint32(MaxEntrySize), PutUint32(MaxEntrySize + 1),
          <<0, 0, 0, 128>>, <<255, 255, 255, 255>>}

RawTails == {<<>>, <<0>>, <<0, 0, 0, 0, 0, 0, 0, 0, 0>>}

\* a CRC, a length and what follows; the CRC is arbitrary or that of the length bytes
RawHeaders ==
    {crc \o len \o tail : crc \in RawCRCs, len \in RawLens, tail \in RawTails}
    \cup {ChecksumIEEE(len) \o len \o tail : len \in RawLens, tail \in RawTails}

\* fewer than four bytes after a sentinel
RawSentinels == {<<255, 255, 255, 255>> \o t : t \in {<<>>, <<5>>, <<5, 0, 0>>}}

\* TYPE | KEY_LEN | KEY | VAL_LEN | VALUE with declared lengths that are right,
\* too large or far too large, and TYPE bytes beyond Put and Delete
RawFields ==
    {<<t>> \o kl \o k \o vl \o v :
        t \in {OperationPut, OperationDelete, 2, 255},
        k \in {<<>>, <<97>>},
        kl \in {<<0, 0, 0, 0>>, <<1, 0, 0, 0>>, <<4, 0, 0, 0>>, <<255, 255, 255, 255>>},
        v \in {<<>>, <<98>>},
        vl \in {<<0, 0, 0, 0>>, <<1, 0, 0, 0>>, <<2, 0, 0, 0>>, <<0, 0, 0, 128>>}}

\* the payloads: every non-empty prefix of such fields
RawPayloads == UNION {{SubSeq(f, 1, n) : n \in 1..Len(f)} : f \in RawFields}

\* CRC | TOTAL_LEN | payload, TOTAL_LEN and CRC consistent with the payload
RawFrame(payload) ==
    ChecksumIEEE(PutUint32(4 + Len(payload)) \o payload)
        \o PutUint32(4 + Len(payload)) \o payload

RawSources ==
    {<<>>} \cup RawHeaders \cup RawSentinels \cup {RawFrame(p) : p \in RawPayloads}

RawInit ==
    /\ d_pc = "decode"
    /\ d_logs = <<>>
    /\ d_base \in {NewFile(b, FALSE) : b \in RawSources}
    /\ d_file = d_base
    /\ d_errs = <<>>
    /\ d_outs = <<>>
    /\ d_mut = <<"none">>
    /\ CodecOff
    /\ SizeOff
    /\ DriversOff
    /\ WriterInitWith(EmptyFile, 0)

\* _, err := Decode(f)
RawDecode ==
    /\ d_pc = "decode"
    /\ \E res \in {Decode(d_file)} :
           /\ d_outs' = <<res>>
           /\ d_file' = res.r
    /\ d_pc' = "done"
    /\ UNCHANGED <<d_logs, d_base, d_errs, d_mut, cvars, evars, xvars,
                   wvars, pvars, cpc, lvars, svars, hvars>>

SpecRaw == RawInit /\ [][RawDecode]_vars

(***************************************************************************)
(* The size check of Encode on lengths alone: len(l.key) and len(l.value)  *)
(* range up to 2^32 - 1, far beyond what a byte sequence of the model can  *)
(* hold, and are kept as <<high 16 bits, low 16 bits>>.                    *)
(***************************************************************************)
\* lengths around 0, around 16 MiB - 13, around 2^31 and around 2^32 - 13
SizeLens ==
    {NatPair(n) : n \in {0, 1, 4, MaxEntrySize - 14, MaxEntrySize - 13, MaxEntrySize - 12,
                         MaxEntrySize}}
    \cup {<<32768, 0>>, <<65535, 65522>>, <<65535, 65523>>, <<65535, 65524>>,
          <<65535, 65535>>}

\* the sink handed to Encode: three bytes written, the cursor behind them
SizeSink == [data |-> <<7, 7, 7>>, pos |-> 3, append |-> FALSE]

SizeInit ==
    /\ e_pc = "start"
    /\ e_keyLen \in SizeLens
    /\ e_valLen \in SizeLens
    /\ e_ret = "none"
    /\ CodecOff
    /\ DecodeOff
    /\ DriversOff
    /\ WriterInitWith(EmptyFile, 0)

\* l.Encode(w) up to the first write
SizeEncode ==
    /\ e_pc = "start"
    /\ e_ret' = EncodeHead(e_keyLen, e_valLen, SizeSink)
    /\ e_pc' = "returned"
    /\ UNCHANGED <<e_keyLen, e_valLen, cvars, dvars, xvars,
                   wvars, pvars, cpc, lvars, svars, hvars>>

SpecSize == SizeInit /\ [][SizeEncode]_vars

(***************************************************************************)
(* The segment directory and NewDiskSegmentManager (src/unnamed/part_001). *)
(* A file name is a prefix, a run of decimal digits and a list of          *)
(* extensions: Name("segment-", <<0, 0, 0, 1>>, <<".log">>) is             *)
(* segment-0001.log.  A directory maps the names it holds to entries, and  *)
(* an open file is a handle on a name of the directory.                    *)
(***************************************************************************)
Name(pre, digits, exts) == [pre |-> pre, digits |-> digits, exts |-> exts]

diskLogFileExt == ".log"

\* filepath.Ext: the last extension of the name
Ext(name) == IF name.exts = <<>> THEN "" ELSE name.exts[Len(name.exts)]

\* segmentFileNamePattern: ^segment-(\d+)\.log$
MatchesPattern(name) ==
    /\ name.pre = "segment-"
    /\ Len(name.digits) >= 1
    /\ name.exts = <<".log">>

RECURSIVE StripZeros(_)
StripZeros(d) == IF d # <<>> /\ Head(d) = 0 THEN StripZeros(Tail(d)) ELSE d

RECURSIVE DigitsValue(_)
DigitsValue(d) ==
    IF d = <<>> THEN 0 ELSE 10 * DigitsValue(SubSeq(d, 1, Len(d) - 1)) + d[Len(d)]

\* strconv.Atoi on a run of digits: a number of more than 19 significant
\* digits is out of range (the names of the model have at most five
\* significant digits, or twenty)
Atoi(d) ==
    LET s == StripZeros(d)
    IN  IF Len(s) > 19
        THEN [err |-> TRUE, val |-> 0]
        ELSE [err |-> FALSE, val |-> DigitsValue(s)]

RECURSIVE Digits(_)
Digits(n) == IF n < 10 THEN <<n>> ELSE Digits(n \div 10) \o <<n % 10>>

\* fmt.Sprintf("%04d", id): at least four digits, padded with zeros
Format04(id) ==
    LET d == Digits(id)
    IN  [i \in 1..(4 - Len(d)) |-> 0] \o d

\* idToPath, relative to s.dir
idToPath(id) == Name("segment-", Format04(id), <<diskLogFileExt>>)

RegularFile(data) == [kind |-> "file", data |-> data]
SubDir == [kind |-> "dir", data |-> <<>>]

NewDir(ents) == [exists |-> TRUE, isDir |-> TRUE, ents |-> ents]
MissingDir == [exists |-> FALSE, isDir |-> FALSE, ents |-> <<>>]
NotADir == [exists |-> TRUE, isDir |-> FALSE, ents |-> <<>>]

\* a nil *os.File, and the handles os.Create and os.OpenFile return
NilFile == [nil |-> TRUE, name |-> Name("", <<>>, <<>>), open |-> FALSE,
            append |-> FALSE, pos |-> 0]
Handle(name, append) == [nil |-> FALSE, name |-> name, open |-> TRUE,
                         append |-> append, pos |-> 0]

ErrNotADir == "path exists but is not a directory"
ErrInvalidEntries == "invalid segment entries"
ErrOpenActive == "failed to open active file"
ErrClosePrev == "failed to close previous segment"
ErrCreate == "create failed"
ErrFirstSegment == "failed to craete first segment"

\* os.Create: O_RDWR|O_CREATE|O_TRUNC; it fails on a directory, or when the
\* system call fails
Create(dir, name, fails) ==
    IF fails \/ (name \in DOMAIN dir.ents /\ dir.ents[name].kind = "dir")
    THEN [err |-> TRUE, file |-> NilFile, dir |-> dir]
    ELSE [err |-> FALSE, file |-> Handle(name, FALSE),
          dir |-> [dir EXCEPT !.ents =
                      [n \in DOMAIN dir.ents \cup {name} |->
                          IF n = name THEN RegularFile(<<>>) ELSE dir.ents[n]]]]

\* os.OpenFile(path, O_APPEND|O_RDWR): no O_CREATE, so the file must exist
OpenFile(dir, name) ==
    IF name \in DOMAIN dir.ents /\ dir.ents[name].kind = "file"
    THEN [err |-> FALSE, file |-> Handle(name, TRUE)]
    ELSE [err |-> TRUE, file |-> NilFile]

\* the manager's fields that change: s.active and s.activeID
NewManager == [active |-> NilFile, activeID |-> 0]

\* RotateSegment between Lock and Unlock (part_001:161-178).  Closing a file
\* releases the descriptor even when Close reports an error, and closing a
\* closed file is an error.
RotateSegmentBody(s, dir, closeFails, createFails) ==
    IF ~s.active.nil /\ (closeFails \/ ~s.active.open)
    THEN [s |-> [s EXCEPT !.active.open = FALSE], dir |-> dir, err |-> ErrClosePrev]
    ELSE LET old == [s EXCEPT !.active.open = FALSE]
             id == s.activeID + 1
             c == Create(dir, idToPath(id), createFails)
         IN  IF c.err
             THEN [s |-> [old EXCEPT !.activeID = id], dir |-> dir, err |-> ErrCreate]
             ELSE [s |-> [active |-> c.file, activeID |-> id], dir |-> c.dir,
                   err |-> "none"]

\* initializeEmptySegmentDir
initializeEmptySegmentDir(s, dir) ==
    LET r == RotateSegmentBody(s, dir, FALSE, FALSE)
    IN  IF r.err # "none"
        THEN [s |-> NewManager, dir |-> r.dir, err |-> ErrFirstSegment]
        ELSE r

\* the names the loop of part_001:91-116 keeps
segmentEntries(dir) ==
    {n \in DOMAIN dir.ents :
        /\ dir.ents[n].kind = "file"
        /\ Ext(n) = diskLogFileExt
        /\ MatchesPattern(n)
        /\ ~Atoi(n.digits).err}

\* sort.Sort(segmentEntries): the ids in ascending order, duplicates kept
RECURSIVE SortedIds(_)
SortedIds(names) ==
    IF names = {} THEN <<>>
    ELSE LET n == CHOOSE x \in names :
                    \A y \in names : Atoi(x.digits).val <= Atoi(y.digits).val
         IN  <<Atoi(n.digits).val>> \o SortedIds(names \ {n})

validateSegmentEntries(ids) == \A i \in 1..Len(ids) : ids[i] = i

\* NewDiskSegmentManager(dir): the error, the manager and the directory after
NewDiskSegmentManager(dir) ==
    IF ~dir.exists THEN initializeEmptySegmentDir(NewManager, NewDir(<<>>))
    ELSE IF ~dir.isDir THEN [s |-> NewManager, dir |-> dir, err |-> ErrNotADir]
    ELSE LET entries == segmentEntries(dir)
             ids == SortedIds(entries)
         IN  IF entries = {} THEN initializeEmptySegmentDir(NewManager, dir)
             ELSE IF ~validateSegmentEntries(ids)
             THEN [s |-> NewManager, dir |-> dir, err |-> ErrInvalidEntries]
             ELSE LET o == OpenFile(dir, idToPath(ids[Len(ids)]))
                  IN  IF o.err
                      THEN [s |-> NewManager, dir |-> dir, err |-> ErrOpenActive]
                      ELSE [s |-> [active |-> o.file, activeID |-> ids[Len(ids)]],
                            dir |-> dir, err |-> "none"]

(***************************************************************************)
(* Startup harness: NewDiskSegmentManager is called once on a directory    *)
(* of at most MaxEntries entries (TestInitializeEmptyDir, TestExistingDir, *)
(* TestInvalidSegments).                                                   *)
(***************************************************************************)
MaxEntries == 4

TwentyNines == [i \in 1..20 |-> 9]

StartupNames ==
    {Name("segment-", <<0, 0, 0, 1>>, <<".log">>),
     Name("segment-", <<0, 0, 0, 2>>, <<".log">>),
     Name("segment-", <<0, 0, 0, 3>>, <<".log">>),
     Name("segment-", <<1>>, <<".log">>),
     Name("segment-", <<0, 2>>, <<".log">>),
     Name("segment-", <<0, 0, 0, 0>>, <<".log">>),
     Name("segment-", TwentyNines, <<".log">>),
     Name("segment-", <<>>, <<".log">>),
     Name("segment-", <<0, 0, 0, 1>>, <<".log", ".bak">>),
     Name("wal-", <<0, 0, 0, 1>>, <<".log">>),
     Name("notes", <<>>, <<".txt">>)}

StartupEntries == {RegularFile(<<>>), RegularFile(<<7>>), SubDir}

StartupDirs ==
    {MissingDir, NotADir} \cup
    {NewDir(e) : e \in UNION {[S -> StartupEntries] :
                    S \in {T \in SUBSET StartupNames : Cardinality(T) <= MaxEntries}}}

StartupInit ==
    /\ n_pc = "start"
    /\ n_dir \in StartupDirs
    /\ n_res = <<>>
    /\ CodecOff
    /\ DecodeOff
    /\ SizeOff
    /\ StoreOff
    /\ ReaderOff
    /\ LateOff
    /\ WriterInitWith(EmptyFile, 0)

StartupCall ==
    /\ n_pc = "start"
    /\ n_pc' = "returned"
    /\ n_res' = NewDiskSegmentManager(n_dir)
    /\ UNCHANGED <<n_dir, cvars, dvars, evars, tvars, rvars, kvars, ovars, qvars, wvars, pvars, cpc, lvars,
                   svars, hvars>>

SpecStartup == StartupInit /\ [][StartupCall]_vars

(***************************************************************************)
(* Store harness: client threads call WriteActive, RotateSegment and Close *)
(* on one diskSegmentManager (TestConcurrentDiskSegmentWrites,             *)
(* TestDiskGetActiveFileWithRotation).  Every method starts with           *)
(* s.mu.Lock() and unlocks when it returns; sync.Mutex is not reentrant,   *)
(* so a Lock by the thread that holds the mutex waits like any other.  A   *)
(* closure writes its bytes with two Write calls, the first byte and the   *)
(* rest.                                                                   *)
(***************************************************************************)
NumStoreThreads == 2
MaxStoreCalls == 2

StoreThreads == 1..NumStoreThreads

ErrActiveNil == "active file not initialized"
ErrRotate == "failed to rotate segment"
ErrCloseActive == "failed to close active file"

\* sync.Mutex.Lock can proceed
TryLockNever(m) == TRUE
TryLock(m) == m = 0

\* the rotation test of WriteActive (part_001:198)
NeedsRotateNever(size, n, max) == FALSE
NeedsRotate(size, n, max) == size + n > max

\* the bytes the closure of call k of thread t writes: m copies of its tag
Tag(t, k) == 10 * t + k
TagBytes(t, k, m) == [i \in 1..m |-> Tag(t, k)]

\* w.Write(bs) on the handle h
WriteTo(dir, h, bs) ==
    LET f == FileWrite([data |-> dir.ents[h.name].data, pos |-> h.pos,
                        append |-> h.append], bs)
    IN  [dir |-> [dir EXCEPT !.ents[h.name].data = f.data],
         h |-> [h EXCEPT !.pos = f.pos]]

\* the calls a thread can make: WriteActive(n, fn) with fn writing m bytes
\* (m = n, or one byte more than declared), RotateSegment(), Close()
StoreCalls ==
    {[op |-> "WriteActive", n |-> n, m |-> n] : n \in 1..3} \cup
    {[op |-> "WriteActive", n |-> 1, m |-> 2]} \cup
    {[op |-> "RotateSegment", n |-> 0, m |-> 0], [op |-> "Close", n |-> 0, m |-> 0]}

NoCall == [op |-> "none", n |-> 0, m |-> 0, stack |-> <<>>, size |-> 0, id |-> 0, k |-> 0]

StoreMaxSizes == {2, 3}

StoreDirs ==
    {MissingDir,
     NewDir(idToPath(1) :> RegularFile(<<7>>)),
     NewDir(idToPath(1) :> RegularFile(<<7, 7>>) @@ idToPath(2) :> RegularFile(<<>>))}

\* the manager NewDiskSegmentManager(dir, WithMaxSegmentSize(max)) returns,
\* with `used` of the MaxFaults I/O faults spent
StoreInitWith(used) ==
    /\ \E d \in StoreDirs :
          \E r \in {NewDiskSegmentManager(d)} :
              /\ r.err = "none"
              /\ t_dir = r.dir
              /\ t_active = r.s.active
              /\ t_activeID = r.s.activeID
    /\ t_max \in StoreMaxSizes
    /\ t_mu = 0
    /\ t_pc = [t \in StoreThreads |-> "idle"]
    /\ t_call = [t \in StoreThreads |-> NoCall]
    /\ t_ret = [t \in StoreThreads |-> "none"]
    /\ t_done = [t \in StoreThreads |-> 0]
    /\ t_faults = used
    /\ t_hist = <<>>
    /\ StartupOff
    /\ ReaderOff
    /\ LateOff
    /\ CodecOff
    /\ DecodeOff
    /\ SizeOff
    /\ WriterInitWith(EmptyFile, 0)

StoreInit == StoreInitWith(0)

storeRest == <<nvars, rvars, kvars, ovars, qvars, cvars, dvars, evars, wvars, pvars, cpc, lvars, svars, hvars>>

\* whether an I/O call fails: only while faults are left
StoreFaults == IF t_faults < MaxFaults THEN {FALSE, TRUE} ELSE {FALSE}

\* the outermost call of thread t returns err; its deferred Unlock runs
StoreReturn(t, err) ==
    /\ t_mu' = 0
    /\ t_pc' = [t_pc EXCEPT ![t] = "idle"]
    /\ t_ret' = [t_ret EXCEPT ![t] = err]
    /\ t_done' = [t_done EXCEPT ![t] = @ + 1]
    /\ t_call' = [t_call EXCEPT ![t] = NoCall]

\* a thread enters WriteActive, RotateSegment or Close
StoreCall(t) ==
    /\ t_pc[t] = "idle"
    /\ t_done[t] < MaxStoreCalls
    /\ \E c \in StoreCalls :
          t_call' = [t_call EXCEPT ![t] =
                        [op |-> c.op, n |-> c.n, m |-> c.m, stack |-> <<c.op>>,
                         size |-> 0, id |-> 0, k |-> t_done[t] + 1]]
    /\ t_pc' = [t_pc EXCEPT ![t] = "lock"]
    /\ UNCHANGED <<t_dir, t_mu, t_active, t_activeID, t_max, t_ret, t_done, t_faults,
                   t_hist, storeRest>>

\* s.mu.Lock() at the head of the function on top of the thread's stack
StoreLock(t) ==
    /\ t_pc[t] = "lock"
    /\ TryLock(t_mu)
    /\ t_mu' = t
    /\ t_pc' = [t_pc EXCEPT ![t] = t_call[t].stack[Len(t_call[t].stack)]]
    /\ UNCHANGED <<t_dir, t_active, t_activeID, t_max, t_call, t_ret, t_done, t_faults,
                   t_hist, storeRest>>

\* WriteActive from the size check to the rotation test (part_001:185-202)
StoreWriteCheck(t) ==
    /\ t_pc[t] = "WriteActive"
    /\ \E statFails \in StoreFaults :
          LET c == t_call[t]
              size == Len(t_dir.ents[t_active.name].data)
          IN  /\ statFails => (c.n <= t_max /\ ~t_active.nil /\ t_active.open)
              /\ t_faults' = IF statFails THEN t_faults + 1 ELSE t_faults
              /\ IF c.n > t_max THEN StoreReturn(t, ErrNTooLarge)
                 ELSE IF t_active.nil THEN StoreReturn(t, ErrActiveNil)
                 ELSE IF statFails \/ ~t_active.open THEN StoreReturn(t, ErrStat)
                 ELSE IF NeedsRotate(size, c.n, t_max)
                 THEN /\ t_call' = [t_call EXCEPT
                                       ![t].stack = Append(@, "RotateSegment"),
                                       ![t].size = size, ![t].id = t_activeID]
                      /\ t_pc' = [t_pc EXCEPT ![t] = "lock"]
                      /\ UNCHANGED <<t_mu, t_ret, t_done>>
                 ELSE /\ t_call' = [t_call EXCEPT ![t].size = size,
                                                  ![t].id = t_activeID]
                      /\ t_pc' = [t_pc EXCEPT ![t] = "fn"]
                      /\ UNCHANGED <<t_mu, t_ret, t_done>>
    /\ UNCHANGED <<t_dir, t_active, t_activeID, t_max, t_hist, storeRest>>

\* RotateSegment after Lock (part_001:161-178); its deferred Unlock runs
\* when it returns, to WriteActive or to the client
StoreRotate(t) ==
    /\ t_pc[t] = "RotateSegment"
    /\ \E closeFails \in StoreFaults, createFails \in StoreFaults :
          \E r \in {RotateSegmentBody([active |-> t_active, activeID |-> t_activeID],
                                      t_dir, closeFails, createFails)} :
              /\ createFails => r.err = ErrCreate
              /\ closeFails => r.err = ErrClosePrev
              /\ t_faults' = t_faults + (IF closeFails THEN 1 ELSE 0)
                                      + (IF createFails THEN 1 ELSE 0)
              /\ t_dir' = r.dir
              /\ t_active' = r.s.active
              /\ t_activeID' = r.s.activeID
              /\ IF Len(t_call[t].stack) = 1
                 THEN StoreReturn(t, r.err)
                 ELSE IF r.err # "none"
                 THEN StoreReturn(t, ErrRotate)
                 ELSE /\ t_mu' = 0
                      /\ t_call' = [t_call EXCEPT ![t].stack = <<"WriteActive">>]
                      /\ t_pc' = [t_pc EXCEPT ![t] = "fn"]
                      /\ UNCHANGED <<t_ret, t_done>>
    /\ UNCHANGED <<t_max, t_hist, storeRest>>

\* fn(s.active): the closure's first Write
StoreWriteFn(t) ==
    /\ t_pc[t] = "fn"
    /\ LET c == t_call[t]
           first == IF c.m = 0 THEN <<>> ELSE <<Tag(t, c.k)>>
           w == WriteTo(t_dir, t_active, first)
       IN  /\ t_dir' = w.dir
           /\ t_active' = w.h
           /\ t_hist' = Append(t_hist,
                  [t |-> t, k |-> c.k, n |-> c.n, m |-> c.m,
                   id |-> t_activeID, name |-> t_active.name,
                   off |-> Len(t_dir.ents[t_active.name].data),
                   idAt |-> c.id, sizeAt |-> c.size])
           /\ t_pc' = [t_pc EXCEPT ![t] = IF c.m > 1 THEN "fn2" ELSE "sync"]
    /\ UNCHANGED <<t_mu, t_activeID, t_max, t_call, t_ret, t_done, t_faults, storeRest>>

\* the closure's second Write
StoreWriteFn2(t) ==
    /\ t_pc[t] = "fn2"
    /\ LET c == t_call[t]
           w == WriteTo(t_dir, t_active, Tail(TagBytes(t, c.k, c.m)))
       IN  /\ t_dir' = w.dir
           /\ t_active' = w.h
    /\ t_pc' = [t_pc EXCEPT ![t] = "sync"]
    /\ UNCHANGED <<t_mu, t_activeID, t_max, t_call, t_ret, t_done, t_faults, t_hist,
                   storeRest>>

\* s.active.Sync() and the return of WriteActive (part_001:206-211)
StoreWriteSync(t) ==
    /\ t_pc[t] = "sync"
    /\ \E syncFails \in StoreFaults :
          /\ t_faults' = IF syncFails THEN t_faults + 1 ELSE t_faults
          /\ StoreReturn(t, IF syncFails THEN ErrSync ELSE "none")
    /\ UNCHANGED <<t_dir, t_active, t_activeID, t_max, t_hist, storeRest>>

\* Close after Lock (part_001:230-234)
StoreClose(t) ==
    /\ t_pc[t] = "Close"
    /\ \E closeFails \in StoreFaults :
          /\ closeFails => (~t_active.nil /\ t_active.open)
          /\ t_faults' = IF closeFails THEN t_faults + 1 ELSE t_faults
          /\ t_active' = [t_active EXCEPT !.open = FALSE]
          /\ StoreReturn(t, IF closeFails \/ ~t_active.open
                            THEN ErrCloseActive ELSE "none")
    /\ UNCHANGED <<t_dir, t_activeID, t_max, t_hist, storeRest>>

StoreStep(t) ==
    \/ StoreCall(t)
    \/ StoreLock(t)
    \/ StoreWriteCheck(t)
    \/ StoreRotate(t)
    \/ StoreWriteFn(t)
    \/ StoreWriteFn2(t)
    \/ StoreWriteSync(t)
    \/ StoreClose(t)

StoreNext == \E t \in StoreThreads : StoreStep(t)

SpecStore == StoreInit /\ [][StoreNext]_vars

\* no I/O call fails and every thread is scheduled fairly
FairSpecStore ==
    /\ StoreInitWith(MaxFaults)
    /\ [][StoreNext]_vars
    /\ \A t \in StoreThreads : WF_vars(StoreStep(t))

(***************************************************************************)
(* Reader harness: NewWALReader(dir) and WALReader.Iter                    *)
(* (src/wal/wal_writer.go:110-152) on a WAL directory whose segment files  *)
(* hold the frames Encode produced; the consumer takes every record.       *)
(***************************************************************************)
MaxSegments == 2

WalFilePath == Name("WAL", <<>>, <<".log">>)

ReaderLogs ==
    {NewLog(OperationPut, Slice(<<1>>), Slice(<<2>>)),
     NewLog(OperationDelete, Slice(<<3>>), NilSlice)}

\* the bytes Encode leaves in an empty positional sink
EncodedFrame(l) == Encode(l, EmptyFile, 0).f.data

RECURSIVE EncodedFrames(_)
EncodedFrames(ls) ==
    IF ls = <<>> THEN <<>> ELSE EncodedFrame(Head(ls)) \o EncodedFrames(Tail(ls))

\* what a segment file can hold: the frames of zero, one or two records
SegmentContents == {EncodedFrames(ls) : ls \in UNION {[1..n -> ReaderLogs] : n \in 0..2}}

\* a frame whose last byte was changed after it was written
Damaged(frame) ==
    [i \in 1..Len(frame) |-> IF i = Len(frame) THEN (frame[i] + 1) % 256 ELSE frame[i]]

\* what can follow the good frames of a WAL.log: nothing, the sentinel (alone
\* or before a good frame), a frame cut short, a damaged frame (alone or
\* before a good frame), a header with an insane length
WalTails ==
    LET f == EncodedFrame(NewLog(OperationPut, Slice(<<1>>), Slice(<<2>>)))
    IN  {<<>>,
         <<255, 255, 255, 255>>,
         <<255, 255, 255, 255>> \o f,
         SubSeq(f, 1, 5),
         SubSeq(f, 1, Len(f) - 1),
         Damaged(f),
         Damaged(f) \o f,
         <<1, 1, 1, 1, 0, 0, 0, 0>>}

WalContents == {c \o t : c \in SegmentContents, t \in WalTails}

\* directories with segments 1..M, with or without a WAL.log beside them
ReaderDirs ==
    {NewDir(segs @@ extra) :
        segs \in UNION {[{idToPath(id) : id \in 1..M} ->
                            {RegularFile(c) : c \in SegmentContents}] :
                        M \in 1..MaxSegments},
        extra \in {<<>>} \cup {WalFilePath :> RegularFile(c) : c \in WalContents}}

ReaderInit ==
    /\ r_pc = "open"
    /\ r_dir \in ReaderDirs
    /\ r_file = EmptyFile
    /\ r_out = <<>>
    /\ r_err = "none"
    /\ StartupOff
    /\ StoreOff
    /\ LateOff
    /\ CodecOff
    /\ DecodeOff
    /\ SizeOff
    /\ WriterInitWith(EmptyFile, 0)

readerRest == <<nvars, tvars, kvars, ovars, qvars, cvars, dvars, evars, wvars, pvars, cpc, lvars, svars, hvars>>

ErrNotExist == "file does not exist"

\* NewWALReader: os.OpenFile(dir/WAL.log, O_RDONLY)
NewWALReader ==
    /\ r_pc = "open"
    /\ IF WalFilePath \in DOMAIN r_dir.ents
       THEN /\ r_file' = NewFile(r_dir.ents[WalFilePath].data, FALSE)
            /\ r_pc' = "iter"
            /\ UNCHANGED r_err
       ELSE /\ r_err' = ErrNotExist
            /\ r_pc' = "ended"
            /\ UNCHANGED r_file
    /\ UNCHANGED <<r_dir, r_out, readerRest>>

\* a variant of Iter that takes every error for the end of the log
IterHidesErrors ==
    /\ r_pc = "iter"
    /\ \E d \in {Decode(r_file)} :
          /\ r_file' = d.r
          /\ IF d.err # ErrNil
             THEN /\ r_pc' = "ended"
                  /\ UNCHANGED <<r_out, r_err>>
             ELSE /\ r_out' = Append(r_out, [op |-> d.log.op, key |-> d.log.key.b,
                                             value |-> d.log.value.b])
                  /\ UNCHANGED <<r_pc, r_err>>
    /\ UNCHANGED <<r_dir, readerRest>>

\* one turn of the loop of Iter; the consumer's yield returns true or false
Iter ==
    /\ r_pc = "iter"
    /\ \E d \in {Decode(r_file)}, more \in BOOLEAN :
          /\ r_file' = d.r
          /\ IF d.err = EOF
             THEN /\ more
                  /\ r_pc' = "ended"
                  /\ UNCHANGED <<r_out, r_err>>
             ELSE IF d.err = Panic
             THEN /\ more
                  /\ r_pc' = "panicked"
                  /\ UNCHANGED <<r_out, r_err>>
             ELSE IF d.err # ErrNil
             THEN /\ more
                  /\ r_pc' = "ended"
                  /\ r_err' = d.err
                  /\ UNCHANGED r_out
             ELSE /\ r_out' = Append(r_out, [op |-> d.log.op, key |-> d.log.key.b,
                                             value |-> d.log.value.b])
                  /\ r_pc' = IF more THEN "iter" ELSE "stopped"
                  /\ UNCHANGED r_err
    /\ UNCHANGED <<r_dir, readerRest>>

ReaderNext == NewWALReader \/ Iter

SpecReader == ReaderInit /\ [][ReaderNext]_vars

(***************************************************************************)
(* SkipList (src/memtable/skip_list.go).  Keys in a list are distinct, so  *)
(* a node is named by its key: a forward pointer is the key of the node it *)
(* points to, or Nil; HeadPtr is sl.head.  forward[level] of the code is   *)
(* forward[level + 1] here.                                                *)
(***************************************************************************)
Nil == -1
HeadPtr == -2

\* *new(V)
ZeroValue == 0

NewSkipListMemtable == [head |-> <<Nil>>, levels |-> -1, size |-> 0, nodes |-> <<>>]

\* x.forward[level]
Fwd(sl, x, level) ==
    IF x = HeadPtr THEN sl.head[level + 1] ELSE sl.nodes[x].forward[level + 1]

\* x.forward[level] = y
SetFwd(sl, x, level, y) ==
    IF x = HeadPtr
    THEN [sl EXCEPT !.head[level + 1] = y]
    ELSE [sl EXCEPT !.nodes[x].forward[level + 1] = y]

\* the loops of Get from node curr at the given level
RECURSIVE GetFrom(_, _, _, _)
GetFrom(sl, curr, level, key) ==
    IF level < 0 THEN [value |-> ZeroValue, ok |-> FALSE]
    ELSE LET f == Fwd(sl, curr, level)
         IN  IF f = Nil \/ f > key THEN GetFrom(sl, curr, level - 1, key)
             ELSE IF f = key THEN [value |-> sl.nodes[f].value, ok |-> TRUE]
             ELSE GetFrom(sl, f, level, key)

GetNever(sl, key) == [value |-> ZeroValue, ok |-> FALSE]
Get(sl, key) == GetFrom(sl, HeadPtr, sl.levels, key)

\* adjustLevels: a new head of level + 1 slots, the old slots copied
adjustLevels(sl, level) ==
    [sl EXCEPT !.head = [i \in 1..(level + 1) |->
                            IF i <= Len(sl.head) THEN sl.head[i] ELSE Nil],
               !.levels = level]

\* the search loop of Put (lines 89-95): the node the search ends on, and
\* updates[level] for every level
RECURSIVE FindUpdates(_, _, _, _, _)
FindUpdates(sl, x, level, key, updates) ==
    IF level < 0 THEN [x |-> x, updates |-> updates]
    ELSE LET f == Fwd(sl, x, level)
         IN  IF f # Nil /\ f < key
             THEN FindUpdates(sl, f, level, key, updates)
             ELSE FindUpdates(sl, x, level - 1, key, (level :> x) @@ updates)

\* the linking loop of Put (lines 102-105)
RECURSIVE Link(_, _, _, _, _)
Link(sl, updates, key, newLevel, level) ==
    IF level > newLevel THEN sl
    ELSE LET s1 == SetFwd(sl, key, level, Fwd(sl, updates[level], level))
             s2 == SetFwd(s1, updates[level], level, key)
         IN  Link(s2, updates, key, newLevel, level + 1)

\* Put with the level getRandomLevel drew
Put(sl, key, value, newLevel) ==
    LET sl1 == IF newLevel > sl.levels THEN adjustLevels(sl, newLevel) ELSE sl
        found == FindUpdates(sl1, HeadPtr, sl1.levels, key, <<>>)
    IN  IF Fwd(sl1, found.x, 0) = key
        THEN [sl1 EXCEPT !.nodes[key].value = value]
        ELSE LET node == [value |-> value, forward |-> [i \in 1..(newLevel + 1) |-> Nil]]
                 withNode == [sl1 EXCEPT !.nodes = (key :> node) @@ sl1.nodes]
                 linked == Link(withNode, found.updates, key, newLevel, 0)
             IN  [linked EXCEPT !.size = @ + 1]

\* the unlinking loops of Delete (lines 113-123)
RECURSIVE DeleteFrom(_, _, _, _)
DeleteFrom(sl, x, level, key) ==
    IF level < 0 THEN sl
    ELSE LET f == Fwd(sl, x, level)
         IN  IF f = Nil \/ f > key THEN DeleteFrom(sl, x, level - 1, key)
             ELSE IF f = key
             THEN DeleteFrom(SetFwd(sl, x, level, Fwd(sl, f, level)), x, level, key)
             ELSE DeleteFrom(sl, f, level, key)

\* the trimming loop of Delete (lines 125-128)
RECURSIVE TrimLevels(_)
TrimLevels(sl) ==
    IF sl.levels > 0 /\ sl.head[sl.levels + 1] = Nil
    THEN TrimLevels([sl EXCEPT !.levels = @ - 1, !.head = SubSeq(@, 1, sl.levels)])
    ELSE sl

\* the nodes some pointer chain from the head still reaches; the others are
\* garbage
RECURSIVE Reached(_, _)
Reached(sl, from) ==
    LET next == from \cup
                (UNION {{sl.nodes[k].forward[i] : i \in 1..Len(sl.nodes[k].forward)} :
                           k \in from} \ {Nil})
    IN  IF next = from THEN from ELSE Reached(sl, next)

Collect(sl) ==
    LET live == Reached(sl, {sl.head[i] : i \in 1..Len(sl.head)} \ {Nil})
    IN  [sl EXCEPT !.nodes = [k \in live |-> sl.nodes[k]]]

DeleteBottom(sl, key) == TrimLevels(Collect(DeleteFrom(sl, HeadPtr, 0, key)))
Delete(sl, key) == TrimLevels(Collect(DeleteFrom(sl, HeadPtr, sl.levels, key)))

\* Iterator: the records yielded to a consumer whose yield returns false at
\* call number stopAt (never, when stopAt = 0)
RECURSIVE IterFrom(_, _, _, _, _)
IterFrom(sl, curr, level, stopAt, acc) ==
    LET f == Fwd(sl, curr, level)
    IN  IF f = Nil THEN acc
        ELSE LET out == Append(acc, [key |-> f, value |-> sl.nodes[f].value])
             IN  IF Len(out) = stopAt THEN out
                 ELSE IterFrom(sl, f, level, stopAt, out)

IteratorTop(sl, stopAt) ==
    IterFrom(sl, HeadPtr, IF sl.levels < 0 THEN 0 ELSE sl.levels, stopAt, <<>>)
Iterator(sl, stopAt) == IterFrom(sl, HeadPtr, 0, stopAt, <<>>)

(***************************************************************************)
(* Skip list harness: Put and Delete calls on one list, with every level   *)
(* getRandomLevel can draw up to MaxSkipLevel, and the map the same calls  *)
(* build (TestRandomInsertAndGet, TestDelete, TestIteratorAfterDelete).    *)
(***************************************************************************)
MaxSkipOps == 5
MaxSkipKey == 2
MaxSkipLevel == 2

SkipKeys == 0..MaxSkipKey
SkipValues == {1, 2}
NoValue == 0

SkipInit ==
    /\ k_sl = NewSkipListMemtable
    /\ k_map = [k \in SkipKeys |-> NoValue]
    /\ k_n = 0
    /\ k_dels = 0
    /\ OldWriterOff
    /\ StartupOff
    /\ StoreOff
    /\ ReaderOff
    /\ CodecOff
    /\ DecodeOff
    /\ SizeOff
    /\ WriterInitWith(EmptyFile, 0)

skipRest == <<nvars, tvars, rvars, ovars, qvars, cvars, dvars, evars, wvars, pvars, cpc, lvars,
              svars, hvars>>

SkipPut ==
    /\ k_n < MaxSkipOps
    /\ \E key \in SkipKeys, value \in SkipValues, level \in 0..MaxSkipLevel :
          /\ k_sl' = Put(k_sl, key, value, level)
          /\ k_map' = [k_map EXCEPT ![key] = value]
    /\ k_n' = k_n + 1
    /\ UNCHANGED <<k_dels, skipRest>>

SkipDelete ==
    /\ k_n < MaxSkipOps
    /\ \E key \in SkipKeys :
          /\ k_sl' = Delete(k_sl, key)
          /\ k_map' = [k_map EXCEPT ![key] = NoValue]
    /\ k_n' = k_n + 1
    /\ k_dels' = k_dels + 1
    /\ UNCHANGED skipRest

SkipNext == SkipPut \/ SkipDelete

SpecSkip == SkipInit /\ [][SkipNext]_vars

(***************************************************************************)
(* The single-file writer (src/wal/wal_writer.go, package main): Write,    *)
(* Close and loop on WAL.log.  Producers and closers are those of the      *)
(* writer above; the k-th Write call of producer p submits LogOf(<<p, k>>).*)
(* No I/O call fails.  On an unbuffered queue a send proceeds only while   *)
(* the worker stands at one of its receives.                               *)
(***************************************************************************)
WalHasRoom ==
    IF cap = 0 THEN o_ch = <<>> /\ o_wpc \in {"select", "drain"} ELSE Len(o_ch) < cap

WalInit ==
    /\ o_ch = <<>>
    /\ o_done = FALSE
    /\ o_closed = FALSE
    /\ o_wpc = "select"
    /\ o_pc = [p \in Producers |-> [at |-> "idle", k |-> 0]]
    /\ o_res = [c \in Calls |-> "none"]
    /\ o_cpc = [c \in Closers |-> "idle"]
    /\ o_file = NewFile(<<>>, FALSE)
    /\ o_fopen = TRUE
    /\ \E capacity \in 0..Buffer : WriterInitFull(EmptyFile, 0, capacity)
    /\ StartupOff
    /\ StoreOff
    /\ ReaderOff
    /\ SkipOff
    /\ CodecOff
    /\ DecodeOff
    /\ SizeOff

walRest == <<nvars, tvars, rvars, kvars, qvars, cvars, dvars, evars, wvars, pvars, cpc, lvars,
             svars, hvars>>

\* a producer calls Write (line 53)
WalWrite(p) ==
    /\ o_pc[p].at = "idle"
    /\ o_pc[p].k < MaxCalls
    /\ o_pc' = [o_pc EXCEPT ![p] = [at |-> "select", k |-> @.k + 1]]
    /\ UNCHANGED <<o_ch, o_done, o_closed, o_wpc, o_res, o_cpc, o_file, o_fopen, walRest>>

\* lines 54-59: the select takes one of its ready cases
WalWriteSelect(p) ==
    /\ o_pc[p].at = "select"
    /\ \E case \in (IF WalHasRoom THEN {"send"} ELSE {})
                       \cup (IF o_done THEN {"done"} ELSE {}) :
          IF case = "send"
          THEN /\ o_ch' = Append(o_ch, <<p, o_pc[p].k>>)
               /\ o_res' = [o_res EXCEPT ![<<p, o_pc[p].k>>] = ErrNil]
          ELSE /\ o_res' = [o_res EXCEPT ![<<p, o_pc[p].k>>] = ErrWALClosed]
               /\ UNCHANGED o_ch
    /\ o_pc' = [o_pc EXCEPT ![p].at = "idle"]
    /\ UNCHANGED <<o_done, o_closed, o_wpc, o_cpc, o_file, o_fopen, walRest>>

\* lines 63-65: w.closed.Swap(true)
WalCloseSwap(c) ==
    /\ o_cpc[c] = "idle"
    /\ o_closed' = TRUE
    /\ o_cpc' = [o_cpc EXCEPT ![c] = IF o_closed THEN "returned" ELSE "closedone"]
    /\ UNCHANGED <<o_ch, o_done, o_wpc, o_pc, o_res, o_file, o_fopen, walRest>>

\* line 67: close(w.done)
WalCloseDone(c) ==
    /\ o_cpc[c] = "closedone"
    /\ o_done' = TRUE
    /\ o_cpc' = [o_cpc EXCEPT ![c] = "wgwait"]
    /\ UNCHANGED <<o_ch, o_closed, o_wpc, o_pc, o_res, o_file, o_fopen, walRest>>

\* line 68: w.wg.Wait()
WalCloseWait(c) ==
    /\ o_cpc[c] = "wgwait"
    /\ o_wpc = "exited"
    /\ o_cpc' = [o_cpc EXCEPT ![c] = "fclose"]
    /\ UNCHANGED <<o_ch, o_done, o_closed, o_wpc, o_pc, o_res, o_file, o_fopen, walRest>>

\* line 69: w.f.Close()
WalCloseFile(c) ==
    /\ o_cpc[c] = "fclose"
    /\ o_fopen' = FALSE
    /\ o_cpc' = [o_cpc EXCEPT ![c] = "returned"]
    /\ UNCHANGED <<o_ch, o_done, o_closed, o_wpc, o_pc, o_res, o_file, walRest>>

\* l.Encode(w.f) and w.f.Sync() for the record at the head of the queue
WalReceive ==
    /\ o_ch' = Tail(o_ch)
    /\ o_file' = Encode(LogOf(Head(o_ch)), o_file, 0).f

\* lines 75-83: the select of the loop takes one of its ready cases
WalLoopSelect ==
    /\ o_wpc = "select"
    /\ \E case \in (IF o_ch # <<>> THEN {"recv"} ELSE {})
                       \cup (IF o_done THEN {"done"} ELSE {}) :
          IF case = "recv"
          THEN WalReceive /\ UNCHANGED o_wpc
          ELSE o_wpc' = "drain" /\ UNCHANGED <<o_ch, o_file>>
    /\ UNCHANGED <<o_done, o_closed, o_pc, o_res, o_cpc, o_fopen, walRest>>

\* lines 85-96: the drain loop; default returns and the deferred wg.Done runs
WalLoopDrain ==
    /\ o_wpc = "drain"
    /\ IF o_ch # <<>>
       THEN WalReceive /\ UNCHANGED o_wpc
       ELSE o_wpc' = "exited" /\ UNCHANGED <<o_ch, o_file>>
    /\ UNCHANGED <<o_done, o_closed, o_pc, o_res, o_cpc, o_fopen, walRest>>

WalNext ==
    \/ \E p \in Producers : WalWrite(p) \/ WalWriteSelect(p)
    \/ \E c \in Closers : WalCloseSwap(c) \/ WalCloseDone(c) \/ WalCloseWait(c)
                            \/ WalCloseFile(c)
    \/ WalLoopSelect
    \/ WalLoopDrain

SpecWal == WalInit /\ [][WalNext]_vars

(***************************************************************************)
(* Vocabulary of the properties below.                                     *)
(***************************************************************************)
\* how often call c occurs in a sequence of calls
Count(seq, c) == Cardinality({i \in 1..Len(seq) : seq[i] = c})

\* call a occurs before call b in seq
Before(seq, a, b) ==
    \E i, j \in 1..Len(seq) : i < j /\ seq[i] = a /\ seq[j] = b

\* the complete frame of record l: CRC | TOTAL_LEN | TYPE | KEY_LEN | KEY | VAL_LEN | VALUE
Frame(l) == ChecksumIEEE(EncodeBody(l)) \o EncodeBody(l)

\* the bytes bs lie in data at offset off
HasAt(data, off, bs) ==
    /\ Len(data) >= off + Len(bs)
    /\ SubSeq(data, off + 1, off + Len(bs)) = bs

\* the offsets at which the body of call c's record lies in the active segment
BodyAt(c) ==
    {i \in 0..Len(active.data) : HasAt(active.data, i, EncodeBody(LogOf(c)))}

\* what the worker's processing of call c produced: the error of Encode if
\* Encode failed, else what WriteActive returned
Outcome(c) == IF encErr[c] \notin {"none", ErrNil} THEN encErr[c] ELSE waErr[c]

\* the first Close call (the one that set closed) has returned
FirstCloseReturned == firstClose # 0 /\ cpc[firstClose] = "returned"

\* the records a sequential reader gets from r, and the error that ends it
RECURSIVE ReadLogs(_, _)
ReadLogs(r, acc) ==
    LET d == Decode(r)
    IN  IF d.err # ErrNil THEN [logs |-> acc, err |-> d.err]
        ELSE ReadLogs(d.r, Append(acc, [op |-> d.log.op, key |-> d.log.key.b,
                                        value |-> d.log.value.b]))

\* the sum of the frame lengths of a set of calls
RECURSIVE FrameBytes(_)
FrameBytes(cs) ==
    IF cs = {} THEN 0
    ELSE LET c == CHOOSE x \in cs : TRUE
         IN  Size(LogOf(c)) + FrameBytes(cs \ {c})

\* the record of call c as a reader reports it
Record(c) == [op |-> LogOf(c).op, key |-> LogOf(c).key.b, value |-> LogOf(c).value.b]

(***************************************************************************)
(* C1.  Durability: for every Write call that returned nil, the worker     *)
(* wrote the record's complete frame into the active segment file and an   *)
(* fsync of that file completed after the frame's last byte was written,   *)
(* before the call returned.                                               *)
(***************************************************************************)
C1_Durability ==
    \A c \in Calls :
        result[c] = ErrNil =>
            /\ wEnd[c] > 0
            /\ syncAt[c] > wEnd[c]
            /\ HasAt(durable, frameOff[c], Frame(LogOf(c)))

(***************************************************************************)
(* C2.  No silent drop: every Write call that passes the closed check is   *)
(* enqueued, dequeued by the worker exactly once, receives exactly one     *)
(* completion signal and returns that signal's value; it is never left     *)
(* without a completion signal.                                            *)
(***************************************************************************)
C2_NoSilentDrop ==
    /\ [](\A c \in Calls :
            /\ Count(enqSeq, c) <= 1 /\ Count(deqSeq, c) <= 1 /\ signals[c] <= 1
            /\ Count(enqSeq, c) = 1 => passed[c])
    /\ \A c \in Calls :
            passed[c] ~> /\ Count(enqSeq, c) = 1
                         /\ Count(deqSeq, c) = 1
                         /\ signals[c] = 1
                         /\ result[c] = Outcome(c)

C4_WriteAfterClose ==
    /\ [][\A p \in Producers :
            (pc[p] = "locked" /\ mu = P(p) /\ closed /\ pc'[p] # pc[p]) =>
                /\ pc'[p] = "idle"
                /\ result'[Cur(p)] = ErrWALClosed
                /\ ch' = ch /\ enqSeq' = enqSeq /\ wg' = wg
                /\ active' = active /\ durable' = durable]_vars
    /\ [](\A p \in Producers :
            (pc[p] = "locked" /\ mu = P(p)) => ENABLED WriteCheck(p))
    /\ [](\A c \in Calls :
            result[c] = ErrWALClosed =>
                Count(enqSeq, c) = 0 /\ wStart[c] = 0 /\ signals[c] = 0)

C4_Witness ==
    \E c \in Calls : result[c] = ErrWALClosed /\ sawClosed[c] /\ enqSeq # <<>>

(***************************************************************************)
(* C5.  Close is idempotent: any number of Close calls, sequential or      *)
(* concurrent, closes the submission queue exactly once, invokes the       *)
(* segment store's Close exactly once, and no Close call panics or blocks  *)
(* forever.                                                                *)
(***************************************************************************)
C5_CloseIdempotent ==
    /\ [](chCloses <= 1 /\ smCloses <= 1 /\ panicked = "none")
    /\ \A c \in Closers :
        cpc[c] # "idle" ~> (cpc[c] = "returned" /\ chCloses = 1 /\ smCloses = 1)

(***************************************************************************)
(* C6.  Close drains before shutting down: when the first Close call       *)
(* returns, every submission that passed the closed check has been         *)
(* processed by the worker and signaled, the worker has exited and the     *)
(* segment store is closed; the in-flight counter reaches zero before the  *)
(* queue is closed, the queue is closed before the worker exits, the       *)
(* worker exits before the store is closed, and no segment-store write     *)
(* starts after the store's Close.                                         *)
(***************************************************************************)
C6_CloseDrains ==
    /\ FirstCloseReturned =>
        /\ \A c \in Calls :
            passed[c] => Count(deqSeq, c) = 1 /\ signals[c] = 1 /\ result[c] # "none"
        /\ wpc = "exited"
        /\ smCloses = 1 /\ ~activeOpen
    /\ chClosed => wg = 0 /\ \A p \in Producers : pc[p] \in {"idle", "locked"}
    /\ wpc = "exited" => chClosed /\ ch = <<>>
    /\ doneClosed <=> wpc = "exited"
    /\ smCloses > 0 => wpc = "exited"
    /\ ~lateWrite

C6_Witness ==
    /\ FirstCloseReturned
    /\ \E a, b \in Calls : a # b /\ result[a] = ErrNil /\ result[b] = ErrNil

C8_ErrorIsolation ==
    /\ \A c \in Calls :
        /\ signals[c] <= 1
        /\ reqDone[c] # <<>> => reqDone[c] = <<Outcome(c)>>
        /\ (passed[c] /\ result[c] # "none") => result[c] = Outcome(c)
    /\ wpc \in {"recv", "exited"} =>
        \A i \in 1..Len(deqSeq) : signals[deqSeq[i]] = 1
    /\ wpc = "exited" => chClosed
    /\ chClosed => closed /\ chCloses = 1 /\ wg = 0

C8_Witness ==
    \E a, b \in Calls :
        /\ Before(deqSeq, a, b)
        /\ result[a] \in {ErrIO, ErrStat, ErrSync}
        /\ result[b] = ErrNil

(***************************************************************************)
(* C9.  Concurrent writes end to end: when the producers have submitted    *)
(* distinct records concurrently, every Write returned nil and Close has   *)
(* returned, decoding the log from the start yields exactly those records, *)
(* each once, no decode returns Corrupt, and the log's size is the sum of  *)
(* the frame lengths.                                                      *)
(***************************************************************************)
C9_EndToEnd ==
    (/\ FirstCloseReturned
     /\ \E c \in Calls : passed[c]
     /\ \A c \in Calls : passed[c] => result[c] = ErrNil) =>
        LET read == ReadLogs(NewFile(active.data, FALSE), <<>>)
            written == {c \in Calls : passed[c]}
        IN  /\ read.err = EOF
            /\ Len(read.logs) = Cardinality(written)
            /\ {read.logs[i] : i \in 1..Len(read.logs)} = {Record(c) : c \in written}
            /\ \A i \in 1..Len(deqSeq) : read.logs[i] = Record(deqSeq[i])
            /\ Len(active.data) = FrameBytes(written)

(***************************************************************************)
(* C10.  Round trip: every record (op in {Put, Delete}, key, value) whose  *)
(* frame is at most 16 MiB, encoded to an empty seekable sink and decoded  *)
(* from its start, comes back Ok with the same op, key and value, a nil    *)
(* value coming back as an empty one.                                      *)
(***************************************************************************)
C10_RoundTrip ==
    (c_pc = "decoded" /\ c_err = ErrNil) =>
        /\ c_out.err = ErrNil
        /\ c_out.log.op = c_log.op
        /\ BytesEqual(c_out.log.key, c_log.key)
        /\ BytesEqual(c_out.log.value, c_log.value)
        /\ ~c_out.log.value.nil

\* the length of the frames of the first i records of logs, 17 + |key| + |value| each
RECURSIVE FramesLen(_, _)
FramesLen(logs, i) ==
    IF i = 0 THEN 0
    ELSE FramesLen(logs, i - 1) + 17 + Len(logs[i].key.b) + Len(logs[i].value.b)

(***************************************************************************)
(* C11.  Sequential decode: after records r1..rn were encoded one after    *)
(* another into an empty sink and the sink was rewound, the i-th Decode    *)
(* (i <= n) returns ri and leaves the source at the end of the i-th        *)
(* frame, and the (n+1)-th Decode returns EOF.                             *)
(***************************************************************************)
C11_SequentialDecode ==
    (d_pc \in {"decode", "done"} /\ d_base = EmptyFile
        /\ \A i \in 1..Len(d_errs) : d_errs[i] = ErrNil) =>
        \A i \in 1..Len(d_outs) :
            IF i <= Len(d_logs)
            THEN /\ d_outs[i].err = ErrNil
                 /\ d_outs[i].log.op = d_logs[i].op
                 /\ BytesEqual(d_outs[i].log.key, d_logs[i].key)
                 /\ BytesEqual(d_outs[i].log.value, d_logs[i].value)
                 /\ d_outs[i].r.pos = FramesLen(d_logs, i)
            ELSE d_outs[i].err = EOF

(***************************************************************************)
(* C12.  Corruption detection: a frame written by a successful Encode, one *)
(* bit of which (in the CRC field, the TOTAL_LEN field or the payload) was *)
(* inverted, is decoded as Corrupt - not as EOF and not as a record.       *)
(***************************************************************************)
C12_CorruptionDetected ==
    (d_pc = "done" /\ d_mut[1] = "flip" /\ d_errs = <<ErrNil>>) =>
        d_outs[1].err = ErrCorruptWAL

(***************************************************************************)
(* C13.  Truncation tolerance: the first i bytes (1 <= i < L) of a frame   *)
(* of length L written by a successful Encode are decoded as EOF - not as  *)
(* Corrupt and not as a record.                                            *)
(***************************************************************************)
C13_TruncationIsEOF ==
    (d_pc = "done" /\ d_mut[1] = "trunc" /\ d_errs = <<ErrNil>>) =>
        /\ d_outs[1].err = EOF
        /\ d_outs[1].log = NoLog

\* a frame cut inside its payload, after the CRC and the length were read whole
C13_Witness ==
    /\ d_pc = "done"
    /\ d_mut[1] = "trunc"
    /\ d_mut[2] > 8
    /\ d_mut[2] < 17 + Len(d_logs[1].key.b) + Len(d_logs[1].value.b)
    /\ d_errs = <<ErrNil>>
    /\ Len(d_file.data) = d_mut[2]
    /\ d_outs[1].err = EOF

\* the source of a raw decode holds at least n bytes
RawHas(n) == Len(d_base.data) >= n
RawCRC == SubSeq(d_base.data, 1, 4)
RawLen == SubSeq(d_base.data, 5, 8)

\* a stored TOTAL_LEN in 0..4 or above 16 MiB (0x01000000), read off its bytes
InsaneLen(b) ==
    \/ b[4] > 1
    \/ b[4] = 1 /\ (b[1] > 0 \/ b[2] > 0 \/ b[3] > 0)
    \/ b[4] = 0 /\ b[3] = 0 /\ b[2] = 0 /\ b[1] <= 4

(***************************************************************************)
(* C14.  Insane length, as stated: whatever the four CRC bytes are         *)
(* (0xFFFFFFFF included), a TOTAL_LEN in 0..4 or above 16 MiB makes Decode *)
(* return Corrupt, having consumed the eight header bytes and no more.     *)
(***************************************************************************)
C14_InsaneLength ==
    (d_pc = "done" /\ RawHas(8) /\ InsaneLen(RawLen)) =>
        /\ d_outs[1].err = ErrCorruptWAL
        /\ d_outs[1].r.pos = 8

(***************************************************************************)
(* C14, amended: the same for every CRC other than 0xFFFFFFFF.             *)
(***************************************************************************)
C14_InsaneLengthNonSentinel ==
    (d_pc = "done" /\ RawHas(8) /\ InsaneLen(RawLen) /\ RawCRC # <<255, 255, 255, 255>>) =>
        /\ d_outs[1].err = ErrCorruptWAL
        /\ d_outs[1].r.pos = 8

\* TestRejectsInsaneLength: CRC 0x11111111, TOTAL_LEN 0xFFFFFFFF
C14_Witness ==
    /\ d_pc = "done"
    /\ RawHas(8)
    /\ RawCRC = <<17, 17, 17, 17>>
    /\ RawLen = <<255, 255, 255, 255>>
    /\ Len(d_base.data) > 8
    /\ d_outs[1].err = ErrCorruptWAL
    /\ d_outs[1].r.pos = 8

\* the frame of (t, k, v) with consistent lengths and CRC, t any TYPE byte
TypedFrame(t, k, v) ==
    RawFrame(<<t>> \o PutUint32(Len(k)) \o k \o PutUint32(Len(v)) \o v)

(***************************************************************************)
(* C15.  Invalid operation type: Decode returns a record only with op Put  *)
(* or Delete, and a frame with consistent CRC and lengths whose TYPE byte  *)
(* is neither 0 nor 1 is decoded as Corrupt.                               *)
(***************************************************************************)
C15_InvalidType ==
    d_pc = "done" =>
        /\ d_outs[1].err = ErrNil => d_outs[1].log.op \in {OperationPut, OperationDelete}
        /\ \A t \in {2, 255}, k \in {<<>>, <<97>>}, v \in {<<>>, <<98>>} :
               d_base.data = TypedFrame(t, k, v) => d_outs[1].err = ErrCorruptWAL

\* the stored CRC of a raw source matches its body and TOTAL_LEN is the body's length
RawConsistent ==
    /\ RawHas(9)
    /\ ~InsaneLen(RawLen)
    /\ RawLen = PutUint32(Len(d_base.data) - 4)
    /\ RawCRC = ChecksumIEEE(SubSeq(d_base.data, 5, Len(d_base.data)))

\* the little-endian value of four bytes when it is at most max, else max + 1
Capped(b, max) ==
    IF b[4] > 0 \/ b[3] > 0 \/ b[1] + 256 * b[2] > max THEN max + 1
    ELSE b[1] + 256 * b[2]

\* the payload of a consistent raw source cannot hold the fields it declares:
\* TYPE(1) KEY_LEN(4) KEY VAL_LEN(4) VALUE need more than its n bytes
RawTooShort ==
    LET n == Len(d_base.data) - 8
        kl == Capped(SubSeq(d_base.data, 10, 13), n)
        vl == Capped(SubSeq(d_base.data, 14 + kl, 17 + kl), n)
    IN  \/ n < 5
        \/ 5 + kl + 4 > n
        \/ 5 + kl + 4 + vl > n

(***************************************************************************)
(* C16.  Bounds violations are Corrupt and Decode is total: Decode never   *)
(* aborts, it returns a record, EOF or Corrupt; and a source whose CRC     *)
(* matches, whose TOTAL_LEN is within 5..16 MiB, and whose payload is too  *)
(* short for the TYPE, KEY_LEN, KEY, VAL_LEN and VALUE it declares, is     *)
(* decoded as Corrupt.                                                     *)
(***************************************************************************)
C16_BoundsAndTotality ==
    d_pc = "done" =>
        /\ d_outs[1].err \in {ErrNil, EOF, ErrCorruptWAL}
        /\ (RawConsistent /\ RawTooShort) => d_outs[1].err = ErrCorruptWAL

(***************************************************************************)
(* C17.  Clean end of log: Decode on an empty source returns EOF, and on a *)
(* source that begins FF FF FF FF it returns EOF whatever follows, having  *)
(* consumed those four bytes only.                                         *)
(***************************************************************************)
C17_CleanEnd ==
    d_pc = "done" =>
        /\ d_base.data = <<>> => (d_outs[1].err = EOF /\ d_outs[1].r.pos = 0)
        /\ (RawHas(4) /\ RawCRC = <<255, 255, 255, 255>>) =>
               (d_outs[1].err = EOF /\ d_outs[1].r.pos = 4)

\* a sentinel followed by a length that would be Corrupt and by more bytes
C17_Witness ==
    /\ d_pc = "done"
    /\ RawHas(9)
    /\ RawCRC = <<255, 255, 255, 255>>
    /\ RawLen = <<0, 0, 0, 0>>
    /\ d_outs[1].err = EOF
    /\ d_outs[1].r.pos = 4

(***************************************************************************)
(* C18.  Reserved sentinel: after a successful Encode into an empty sink   *)
(* the four CRC bytes of the frame are not FF FF FF FF, and the frame is   *)
(* not decoded as end of log.                                              *)
(***************************************************************************)
C18_ReservedSentinel ==
    (c_pc \in {"encoded", "rewound", "decoded"} /\ c_err = ErrNil) =>
        /\ SubSeq(c_file.data, 1, 4) # <<255, 255, 255, 255>>
        /\ c_pc = "decoded" => c_out.err # EOF

\* CRC(4) | TOTAL_LEN(4) | TYPE(1) | KEY_LEN(4) | KEY | VAL_LEN(4) | VALUE of (op, k, v),
\* integers little-endian, the CRC taken over TOTAL_LEN..VALUE
LayoutBody(op, k, v) ==
    PutUint32(13 + Len(k) + Len(v)) \o <<op>> \o PutUint32(Len(k)) \o k
        \o PutUint32(Len(v)) \o v
Layout(op, k, v) == ChecksumIEEE(LayoutBody(op, k, v)) \o LayoutBody(op, k, v)

\* the step is a successful Encode of record l at cursor p of sink w, giving sink w2
LayoutStep(l, w, w2) ==
    LET p == w.pos
        n == 17 + Len(l.key.b) + Len(l.value.b)
    IN  /\ SubSeq(w2.data, p + 1, p + n) = Layout(l.op, l.key.b, l.value.b)
        /\ SubSeq(w2.data, 1, p) = SubSeq(w.data, 1, p)
        /\ Len(w2.data) = IF Len(w.data) > p + n THEN Len(w.data) ELSE p + n
        /\ SubSeq(w2.data, p + n + 1, Len(w2.data)) = SubSeq(w.data, p + n + 1, Len(w.data))
        /\ w2.pos = p + n

(***************************************************************************)
(* C19.  Frame layout: a successful Encode of (op, key, value) with the    *)
(* cursor of a positional sink at p writes the 17 + |key| + |value| bytes  *)
(* CRC | TOTAL_LEN = 13 + |key| + |value| | TYPE | KEY_LEN | KEY | VAL_LEN *)
(* | VALUE at p, little-endian, the CRC being CRC32-IEEE of TOTAL_LEN      *)
(* through VALUE; no other byte of the sink changes and the cursor ends    *)
(* at p + 17 + |key| + |value|.                                            *)
(***************************************************************************)
C19_FrameLayout ==
    [][(d_pc = "encode" /\ d_pc' = "encode" /\ Len(d_errs') = Len(d_errs) + 1
            /\ d_errs'[Len(d_errs')] = ErrNil)
        => LayoutStep(d_logs[Len(d_errs')], d_file, d_file')]_vars

\* two records were encoded in a row into a sink that held bytes before the cursor
C19_Witness ==
    /\ d_pc = "encode"
    /\ d_base.pos = 1
    /\ Len(d_errs) = 2
    /\ d_errs[1] = ErrNil /\ d_errs[2] = ErrNil
    /\ Len(d_logs[2].key.b) > 0 /\ Len(d_logs[2].value.b) > 0
    /\ d_file.data[1] = 7
    /\ d_file.pos = 1 + FramesLen(d_logs, 2)
    /\ Len(d_file.data) = d_file.pos

\* 13 + |key| + |value| without wrap-around, as <<multiples of 65536, rest>>
WideTotal(keyLen, valLen) ==
    <<keyLen[1] + valLen[1] + ((13 + keyLen[2] + valLen[2]) \div 65536),
      (13 + keyLen[2] + valLen[2]) % 65536>>

\* 16 MiB = 256 * 65536
Over16MiB(t) == t[1] > 256 \/ (t[1] = 256 /\ t[2] > 0)
Exactly16MiB(t) == t = <<256, 0>>

(***************************************************************************)
(* C20.  Oversized records are rejected at encode time: when 13 + |key| +  *)
(* |value| exceeds 16 MiB, Encode returns the too-large error and the sink *)
(* keeps its content and cursor (not even the CRC placeholder is           *)
(* written); when it is exactly 16 MiB, Encode does not reject the record. *)
(***************************************************************************)
C20_OversizedRejected ==
    e_pc = "returned" =>
        /\ Over16MiB(WideTotal(e_keyLen, e_valLen)) =>
               (e_ret.err = ErrTooLarge /\ e_ret.f = SizeSink)
        /\ Exactly16MiB(WideTotal(e_keyLen, e_valLen)) => e_ret.err # ErrTooLarge

(***************************************************************************)
(* Segment store: startup.                                                 *)
(***************************************************************************)
\* the segment files of a directory: regular files named ^segment-(\d+)\.log$
SegmentFilesOf(dir) ==
    {n \in DOMAIN dir.ents :
        /\ dir.ents[n].kind = "file"
        /\ n.pre = "segment-"
        /\ Len(n.digits) >= 1
        /\ n.exts = <<".log">>}

FirstSegment == [pre |-> "segment-", digits |-> <<0, 0, 0, 1>>, exts |-> <<".log">>]

\* the directory is missing, or exists and holds no segment file
FreshDir(dir) == ~dir.exists \/ (dir.isDir /\ SegmentFilesOf(dir) = {})

\* nothing that is not a file stands where segment-0001.log is to be created
FirstSegmentFree(dir) ==
    ~(FirstSegment \in DOMAIN dir.ents /\ dir.ents[FirstSegment].kind = "dir")

NamesId(n, id) == StripZeros(n.digits) = Digits(id)

\* the ids parsed from the segment files are exactly 1..M, each once
DenseTo(dir, M) ==
    /\ Cardinality(SegmentFilesOf(dir)) = M
    /\ \A i \in 1..M : \E n \in SegmentFilesOf(dir) : NamesId(n, i)

\* C26 (Startup on existing segments): on a directory that holds segment
\* files (of any digit width), construction succeeds iff the parsed ids are
\* exactly 1..M without duplicates; then the file with id M is open as the
\* active segment, its content kept, and the active id is M; otherwise
\* construction fails.  Either way no file is created or changed, and the
\* entries that are not segment files have no influence.
C26_ExistingStartup ==
    (n_pc = "returned" /\ n_dir.exists /\ n_dir.isDir /\ SegmentFilesOf(n_dir) # {}) =>
        /\ n_res.dir = n_dir
        /\ (n_res.err = "none") <=> (\E M \in 1..MaxEntries : DenseTo(n_dir, M))
        /\ \A M \in 1..MaxEntries :
              DenseTo(n_dir, M) =>
                  /\ n_res.s.activeID = M
                  /\ ~n_res.s.active.nil
                  /\ n_res.s.active.open
                  /\ n_res.s.active.name \in SegmentFilesOf(n_dir)
                  /\ NamesId(n_res.s.active.name, M)

(***************************************************************************)
(* Segment store: rotation, size cap, dense ids, mutual exclusion.         *)
(***************************************************************************)
\* the name of the segment file with the given id, for ids below ten
SegmentNamed(id) == [pre |-> "segment-", digits |-> <<0, 0, 0, id>>, exts |-> <<".log">>]

\* call k of thread t is a WriteActive that has passed the size check and
\* found that its n bytes do not fit the active segment
MustRotate(t, k) ==
    /\ t_call[t].op = "WriteActive"
    /\ t_call[t].k = k
    /\ t_call[t].n <= t_max
    /\ t_call[t].size + t_call[t].n > t_max

\* the closure of call k of thread t has run on a new, empty segment whose
\* id is one more than the id that was active when the call checked the size
RanOnNext(t, k) ==
    \E i \in 1..Len(t_hist) :
        /\ t_hist[i].t = t /\ t_hist[i].k = k
        /\ t_hist[i].id = t_hist[i].idAt + 1
        /\ t_hist[i].name = SegmentNamed(t_hist[i].id)
        /\ t_hist[i].off = 0

\* every closure that ran for a write that fitted ran on the segment that was
\* active at the size check, at the end of that segment; every closure that
\* ran for a write that did not fit ran at the start of the next segment
RotationSafe ==
    \A i \in 1..Len(t_hist) :
        LET e == t_hist[i]
        IN  IF e.sizeAt + e.n <= t_max
            THEN e.id = e.idAt /\ e.off = e.sizeAt
            ELSE e.id = e.idAt + 1 /\ e.off = 0

\* C21 (Rotation policy): a write of declared size n <= maxSegmentSize that
\* does not fit the active segment has its closure run on a new empty segment
\* with id = previous + 1 (the previous file closed first); a write that fits
\* is appended to the current active segment without a rotation.
C21_RotationPolicy ==
    /\ []RotationSafe
    /\ \A t \in StoreThreads : \A k \in 1..MaxStoreCalls :
          MustRotate(t, k) ~> RanOnNext(t, k)

\* every closure that has run wrote exactly the number of bytes declared
ExactClosures == \A i \in 1..Len(t_hist) : t_hist[i].m = t_hist[i].n

\* C22 (Segment size cap): as long as every closure writes exactly the n
\* bytes its write declared, no segment file is larger than maxSegmentSize.
C22_SizeCap ==
    ExactClosures =>
        \A f \in SegmentFilesOf(t_dir) : Len(t_dir.ents[f].data) <= t_max

\* a write that exactly filled a non-empty active segment has returned
C22_Witness ==
    /\ ExactClosures
    /\ \E i \in 1..Len(t_hist) :
          /\ t_hist[i].sizeAt > 0
          /\ t_hist[i].sizeAt + t_hist[i].n = t_max
          /\ Len(t_dir.ents[t_hist[i].name].data) = t_max
          /\ t_pc[t_hist[i].t] = "idle"
          /\ t_ret[t_hist[i].t] = "none"

\* the store was constructed on a directory without segments
FreshStore ==
    \A f \in DOMAIN t_dir.ents :
        \A i \in 1..Len(t_dir.ents[f].data) : t_dir.ents[f].data[i] # 7

\* every call made so far is a WriteActive of s bytes whose closure writes s
\* bytes, and every one that returned had run its closure and returned nil
OnlyWritesOf(s) ==
    /\ FreshStore
    /\ \A t \in StoreThreads :
          /\ t_pc[t] # "idle" =>
                (t_call[t].op = "WriteActive" /\ t_call[t].n = s /\ t_call[t].m = s)
          /\ t_done[t] > 0 => t_ret[t] = "none"
          /\ \A k \in 1..t_done[t] :
                \E i \in 1..Len(t_hist) : t_hist[i].t = t /\ t_hist[i].k = k
    /\ \A i \in 1..Len(t_hist) : t_hist[i].n = s /\ t_hist[i].m = s

StoreQuiet == \A t \in StoreThreads : t_pc[t] = "idle"

\* k writes of s bytes left ceil(k / floor(M / s)) segment files, all but the
\* last holding floor(M / s) writes
CountAfter(k, s) ==
    LET per == t_max \div s
        files == (k + per - 1) \div per
    IN  /\ Cardinality(SegmentFilesOf(t_dir)) = files
        /\ \A id \in 1..files :
              /\ SegmentNamed(id) \in SegmentFilesOf(t_dir)
              /\ Len(t_dir.ents[SegmentNamed(id)].data) =
                    IF id < files THEN per * s ELSE (k - per * (files - 1)) * s

\* C23 (Rotation count): from a fresh directory, k successive writes of a
\* fixed size s <= M all succeed and leave exactly ceil(k / floor(M / s))
\* segment files, every file but the last holding floor(M / s) writes.
C23_RotationCount ==
    \A s \in 1..3 :
        /\ [](OnlyWritesOf(s) /\ StoreQuiet /\ Len(t_hist) > 0
                => CountAfter(Len(t_hist), s))
        /\ (OnlyWritesOf(s) /\ s <= t_max) ~>
              (~OnlyWritesOf(s) \/ (StoreQuiet /\ Len(t_hist) > 0
                                     /\ CountAfter(Len(t_hist), s)))

\* the step in which thread t leaves the size check of a WriteActive whose n
\* is larger than a segment: the call returns "n too large" and nothing else
\* has changed (no rotation, no closure, no fsync)
RejectedStep(t) ==
    (t_pc[t] = "WriteActive" /\ t_call[t].n > t_max /\ t_pc'[t] # t_pc[t]) =>
        /\ t_pc'[t] = "idle"
        /\ t_ret'[t] = "n too large"
        /\ UNCHANGED <<t_dir, t_active, t_activeID, t_hist>>

\* call k of thread t, a write of exactly maxSegmentSize bytes, has run its
\* closure: on the active segment if that was empty, else on the next one
AcceptedFull(t, k) ==
    \E i \in 1..Len(t_hist) :
        /\ t_hist[i].t = t /\ t_hist[i].k = k
        /\ t_hist[i].off = 0
        /\ t_hist[i].id = IF t_hist[i].sizeAt > 0 THEN t_hist[i].idAt + 1
                          ELSE t_hist[i].idAt

\* C24 (Entry larger than a segment): a write with n > maxSegmentSize returns
\* an error and changes nothing; a write with n = maxSegmentSize is accepted,
\* after a rotation exactly when the active segment is non-empty (unless the
\* store has been closed).
C24_LargerThanSegment ==
    /\ [][\A t \in StoreThreads : RejectedStep(t)]_vars
    /\ \A t \in StoreThreads : \A k \in 1..MaxStoreCalls :
          (t_call[t].op = "WriteActive" /\ t_call[t].k = k /\ t_call[t].n = t_max
              /\ t_call[t].m = t_max)
          ~> (AcceptedFull(t, k) \/ ~t_active.open)

\* the segment ids present are exactly 1..activeID, and the file with id
\* activeID, and no other, is open as the active file
DenseAndActive ==
    /\ SegmentFilesOf(t_dir) = {SegmentNamed(id) : id \in 1..t_activeID}
    /\ ~t_active.nil
    /\ t_active.open
    /\ t_active.name = SegmentNamed(t_activeID)

\* C28 (Dense ids and single active segment): a constructed store has segment
\* ids exactly 1..activeID with the file activeID open as active, and every
\* step other than Close keeps it so, including a rotation in which closing
\* the old file or creating the new file fails.
C28_DenseIds ==
    /\ DenseAndActive
    /\ [][(DenseAndActive /\ \A t \in StoreThreads : t_pc[t] # "Close")
             => DenseAndActive']_vars

\* thread t is between the Lock and the Unlock of WriteActive, RotateSegment
\* or Close
InStore(t) ==
    \/ t_pc[t] \in {"WriteActive", "RotateSegment", "fn", "fn2", "sync", "Close"}
    \/ t_pc[t] = "lock" /\ Len(t_call[t].stack) > 1

\* the bytes the closure behind event e has written so far
WrittenBy(e) ==
    IF t_call[e.t].k = e.k /\ t_pc[e.t] = "fn2" THEN 1 ELSE e.m

\* the bytes of the closure are one contiguous range of its segment file,
\* starting where the file ended when the closure began
Contiguous(e) ==
    LET data == t_dir.ents[e.name].data
    IN  \A j \in 1..Len(data) :
            (data[j] = 10 * e.t + e.k) <=> (e.off < j /\ j <= e.off + WrittenBy(e))

\* C29 (Segment-store mutual exclusion): at most one thread is inside
\* WriteActive, RotateSegment or Close at a time, so the steps of one write
\* never interleave with another write or Close, and the bytes of every
\* closure form one contiguous range of its segment.
C29_MutualExclusion ==
    /\ \A t1 \in StoreThreads : \A t2 \in StoreThreads :
          (InStore(t1) /\ InStore(t2)) => t1 = t2
    /\ \A t \in StoreThreads : InStore(t) => t_mu = t
    /\ \A i \in 1..Len(t_hist) : Contiguous(t_hist[i])

\* two threads have each completed a write of two bytes or more, and the two
\* ranges lie side by side in the same segment
C29_Witness ==
    \E i \in 1..Len(t_hist) : \E j \in 1..Len(t_hist) :
        /\ t_hist[i].t # t_hist[j].t
        /\ t_hist[i].name = t_hist[j].name
        /\ t_hist[i].m >= 2 /\ t_hist[j].m >= 2
        /\ t_hist[j].off = t_hist[i].off + t_hist[i].m
        /\ t_pc[t_hist[i].t] = "idle" /\ t_pc[t_hist[j].t] = "idle"
        /\ Contiguous(t_hist[i]) /\ Contiguous(t_hist[j])

(***************************************************************************)
(* Segment file layout.                                                    *)
(***************************************************************************)
\* the calls whose frame the worker has written, in the order it wrote them
RECURSIVE WrittenCalls(_)
WrittenCalls(seq) ==
    IF seq = <<>> THEN <<>>
    ELSE IF wEnd[Head(seq)] > 0 THEN <<Head(seq)>> \o WrittenCalls(Tail(seq))
    ELSE WrittenCalls(Tail(seq))

\* the complete frames of a sequence of calls, one after the other
RECURSIVE FramesOf(_)
FramesOf(seq) ==
    IF seq = <<>> THEN <<>> ELSE Frame(LogOf(Head(seq))) \o FramesOf(Tail(seq))

\* C27 (Segment file layout): when every submission written so far has
\* returned success, the segment file is exactly the concatenation, in write
\* order, of the complete frames of the records written to it, each with its
\* computed CRC in its first four bytes and nothing in between or after; each
\* frame starts where the file ended before it.  This holds for a segment
\* created fresh and for one reopened in append mode.
C27_SegmentLayout ==
    (\A c \in Calls : wEnd[c] > 0 => result[c] = ErrNil) =>
        LET w == WrittenCalls(deqSeq)
        IN  /\ active.data = FramesOf(w)
            /\ \A i \in 1..Len(w) :
                  /\ frameOff[w[i]] = Len(FramesOf(SubSeq(w, 1, i - 1)))
                  /\ SubSeq(active.data, frameOff[w[i]] + 1, frameOff[w[i]] + 4)
                        # <<255, 255, 255, 255>>

(***************************************************************************)
(* Reader.                                                                 *)
(***************************************************************************)
\* the records of segments id..M of the directory, in ascending id and offset
RECURSIVE SegmentRecords(_, _)
SegmentRecords(dir, id) ==
    IF SegmentNamed(id) \notin DOMAIN dir.ents THEN <<>>
    ELSE ReadLogs([data |-> dir.ents[SegmentNamed(id)].data, pos |-> 0,
                   append |-> FALSE], <<>>).logs
         \o SegmentRecords(dir, id + 1)

\* C30 (Reader covers all segments in order): a reader opened on a WAL
\* directory whose records lie in segments 1..M yields every record of every
\* segment, in ascending segment id and offset, and then ends without error.
C30_ReaderCoversSegments ==
    r_pc = "ended" =>
        /\ r_err = "none"
        /\ r_out = SegmentRecords(r_dir, 1)

\* the records a sequential decoding gives for each content of WAL.log, and
\* what ends it
WalDecoded ==
    [c \in WalContents |-> ReadLogs([data |-> c, pos |-> 0, append |-> FALSE], <<>>)]
    @@ <<>>

\* the same for the WAL.log of the reader's directory
WalExpected ==
    WalDecoded[r_dir.ents[[pre |-> "WAL", digits |-> <<>>, exts |-> <<".log">>]].data]

\* the length of the frames of a sequence of records
RECURSIVE FramesSize(_)
FramesSize(recs) ==
    IF recs = <<>> THEN 0
    ELSE 17 + Len(Head(recs).key) + Len(Head(recs).value) + FramesSize(Tail(recs))

\* Iter has ended by itself: it yielded the records up to the first Decode
\* that did not succeed, and after them the error of that Decode unless it
\* was EOF
IterEnded ==
    (r_pc = "ended" /\ r_file # EmptyFile) =>
        \E x \in {WalExpected} :
            /\ r_out = x.logs
            /\ r_err = IF x.err = "EOF" THEN "none" ELSE x.err

\* the consumer's yield returned false: the records yielded are the first
\* ones of the file and nothing was decoded past the last of them
IterStopped ==
    r_pc = "stopped" =>
        \E x \in {WalExpected} :
            /\ r_err = "none"
            /\ Len(r_out) <= Len(x.logs)
            /\ r_out = SubSeq(x.logs, 1, Len(r_out))
            /\ r_file.pos = FramesSize(r_out)

\* C31 (Reader iteration terminates and surfaces corruption): Iter yields a
\* finite sequence (every turn of its loop that does not end it yields one
\* record and moves the cursor forward, within the file); it ends without an error when Decode returns EOF (empty
\* tail, sentinel, truncated tail); when Decode returns Corrupt it yields that
\* error once and ends, never yielding a later record; and it decodes nothing
\* more once the consumer's yield has returned false.
C31_IterTerminates ==
    /\ [](IterEnded /\ IterStopped)
    /\ [][r_err # "none" => (r_err' = r_err /\ r_out' = r_out /\ r_file' = r_file)]_vars
    /\ [][r_pc = "stopped" => (r_out' = r_out /\ r_file' = r_file)]_vars
    /\ [][(r_pc = "iter" /\ r_pc' = "iter") =>
              (Len(r_out') = Len(r_out) + 1 /\ r_file'.pos > r_file.pos)]_vars
    /\ [](r_file.pos <= Len(r_file.data))

\* Iter has yielded a record and then Corrupt, and ended with an intact frame
\* still unread behind the damaged one
C31_Witness ==
    /\ r_pc = "ended"
    /\ r_err = "corrupt WAL"
    /\ Len(r_out) >= 1
    /\ r_file.pos < Len(r_file.data)


(* What the map the same calls built says about key k. *)
MapGet(k) ==
    IF k_map[k] # NoValue THEN [value |-> k_map[k], ok |-> TRUE]
    ELSE [value |-> ZeroValue, ok |-> FALSE]

(* C32: after any sequence of Put and Delete calls, with any random level
   choices, Get(k) returns (v, true) exactly when the most recent operation
   on k was Put(k, v), and (zero value, false) when k was never put or was
   deleted since its last Put. *)
C32_SkipListAgreesWithMap ==
    \A k \in SkipKeys : Get(k_sl, k) = MapGet(k)

(* A key of a tower of two or more levels was deleted, another one
   overwritten, and a Get still finds a live key in a list of several
   levels. *)
C32_Witness ==
    /\ k_dels >= 1
    /\ k_n = MaxSkipOps
    /\ k_sl.levels >= 1
    /\ k_sl.size >= 3
    /\ \E k \in SkipKeys : k_map[k] = NoValue
    /\ \E k \in SkipKeys : Get(k_sl, k) = [value |-> 2, ok |-> TRUE]

(* The keys the map holds, ascending, with their values. *)
RECURSIVE LiveFrom(_)
LiveFrom(k) ==
    IF k > MaxSkipKey THEN <<>>
    ELSE (IF k_map[k] # NoValue THEN <<[key |-> k, value |-> k_map[k]]>> ELSE <<>>)
         \o LiveFrom(k + 1)

Prefix(s, n) == SubSeq(s, 1, IF n < Len(s) THEN n ELSE Len(s))

(* C33: Iterator yields the live keys in strictly ascending order, each
   exactly once with its latest value; when no Delete has been called the
   number of yielded records equals size; and iteration stops as soon as the
   consumer returns false. *)
C33_IterationSorted ==
    /\ Iterator(k_sl, 0) = LiveFrom(0)
    /\ \A i, j \in 1..Len(Iterator(k_sl, 0)) :
          i < j => Iterator(k_sl, 0)[i].key < Iterator(k_sl, 0)[j].key
    /\ k_dels = 0 => Len(Iterator(k_sl, 0)) = k_sl.size
    /\ \A n \in 1..(MaxSkipKey + 1) : Iterator(k_sl, n) = Prefix(LiveFrom(0), n)

(* Two keys are live after a delete in a list of several levels, and a
   consumer that stops at the first record gets fewer than all of them. *)
C33_Witness ==
    /\ k_dels >= 1
    /\ k_sl.levels >= 1
    /\ Len(Iterator(k_sl, 0)) = 2
    /\ Len(Iterator(k_sl, 1)) = 1
    /\ k_sl.size = 3


(***************************************************************************)
(* C37.  No use of a closed queue: in the mutex-based writer, for any      *)
(* interleaving of Write and Close calls, no producer ever sends on the    *)
(* submission queue after it has been closed, and the queue and the done   *)
(* signal are each closed at most once.                                    *)
(***************************************************************************)
C37_NoUseOfClosedQueue ==
    /\ [](panicked \notin {"send on closed channel", "close of closed channel"})
    /\ [](chCloses <= 1)
    /\ [](chClosed => \A p \in Producers : pc[p] # "select")
    /\ [][chClosed => (chClosed' /\ ch' = ch /\ enqSeq' = enqSeq)]_vars
    /\ [][(doneClosed' /\ ~doneClosed) => (wpc = "recv" /\ wpc' = "exited")]_vars
    /\ [][wpc = "exited" => (wpc' = "exited" /\ doneClosed')]_vars

(* Two Close calls have returned, one that shut the writer down and one
   that found closed set; one Write was turned away and another, which was
   waiting for queue space when Close began, was written. *)
C37_Witness ==
    /\ \E a, b \in Closers : a # b /\ cpc[a] = "returned" /\ cpc[b] = "returned"
    /\ chCloses = 1
    /\ doneClosed
    /\ \E c \in Calls : result[c] = ErrWALClosed
    /\ \E c \in parked : result[c] = ErrNil


(***************************************************************************)
(* C38.  Every Close return means shutdown is complete: when any call to   *)
(* Close returns - the first call or a later or concurrent one - the       *)
(* worker has exited and the segment store has been closed.                *)
(***************************************************************************)
C38_CloseReturnMeansShutdown ==
    \A c \in Closers :
        cpc[c] = "returned" => (wpc = "exited" /\ smCloses >= 1 /\ ~activeOpen)


(* Encode failed for call a after the placeholder CRC of its frame had
   reached the segment, and the placeholder is still where it was put. *)
PlaceholderLeft(a) ==
    /\ encErr[a] = ErrIO
    /\ Len(active.data) >= frameOff[a] + 4
    /\ SubSeq(active.data, frameOff[a] + 1, frameOff[a] + 4) = <<255, 255, 255, 255>>

(***************************************************************************)
(* C36.  Recoverability after a failed write: if a submission fails on the *)
(* write path after part of its frame reached the active segment (a sink   *)
(* write or seek error during Encode, leaving the placeholder CRC in       *)
(* place), every later submission whose Write returns success is still     *)
(* returned when the segment files are decoded sequentially from the       *)
(* start.                                                                  *)
(***************************************************************************)
C36_RecoverableAfterFailedWrite ==
    ~active.append =>
        \A a, b \in Calls :
            (Before(deqSeq, a, b) /\ PlaceholderLeft(a) /\ result[b] = ErrNil) =>
                \E read \in {ReadLogs(NewFile(active.data, FALSE), <<>>)} :
                    \E i \in 1..Len(read.logs) : read.logs[i] = Record(b)


(***************************************************************************)
(* C35.  Segment-store write terminates: every call to WriteActive         *)
(* returns, including calls for which activeFileSize + n > maxSegmentSize  *)
(* so that rotation is performed inside the call; no thread blocks forever *)
(* acquiring the (non-reentrant) store mutex, in particular not the thread *)
(* that already holds it.                                                  *)
(***************************************************************************)
C35_WriteActiveTerminates ==
    /\ \A t \in StoreThreads : \A k \in 1..MaxStoreCalls :
          (t_call[t].op = "WriteActive" /\ t_call[t].k = k) ~> (t_done[t] >= k)
    /\ \A t \in StoreThreads : (t_pc[t] = "lock") ~> (t_pc[t] # "lock")
    /\ [](\A t \in StoreThreads : t_pc[t] = "lock" => t_mu # t)


(***************************************************************************)
(* C39.  Size check is safe under 32-bit arithmetic: for every key length  *)
(* and value length in [0, 2^32), Encode rejects the record whenever the   *)
(* true sum 13 + |key| + |value| exceeds 16 MiB, including when that sum   *)
(* exceeds 2^32 - 1; no wrap-around lets an oversized record be accepted   *)
(* or written with a TOTAL_LEN that differs from its true length.          *)
(***************************************************************************)
C39_SizeCheckNoWrap ==
    e_pc = "returned" =>
        /\ e_ret.err = ErrTooLarge <=> Over16MiB(WideTotal(e_keyLen, e_valLen))
        /\ e_ret.err # ErrTooLarge => e_ret.totalLen = WideTotal(e_keyLen, e_valLen)

(* A segment-store operation has not returned: the worker stands inside
   WriteActive at the Lock of RotateSegment. *)
StoreHangs == wpc = "rotate"

(* No thread that is inside a call, and not the worker, can take a step. *)
AllBlocked ==
    /\ \A p \in Producers : pc[p] # "idle" => ~ENABLED ProducerStep(p)
    /\ \A c \in Closers : cpc[c] # "idle" => ~ENABLED CloserStep(c)
    /\ ~ENABLED WorkerStep

(* How far the threads have come: every step of a thread moves it forward. *)
ProducerRank(p) ==
    4 * calls[p] + (CASE pc[p] = "locked" -> 0 [] pc[p] = "select" -> 1
                      [] pc[p] = "await" -> 2 [] OTHER -> 3)
CloserRank(c) ==
    CASE cpc[c] = "idle" -> 0 [] cpc[c] = "locked" -> 1 [] cpc[c] = "wgwait" -> 2
      [] cpc[c] = "closech" -> 3 [] cpc[c] = "waitdone" -> 4 [] cpc[c] = "smclose" -> 5
      [] OTHER -> 6
WorkerRank ==
    6 * Len(deqSeq) + (CASE wpc = "writeactive" -> 0 [] wpc \in {"fn", "rotate"} -> 1
                         [] wpc = "sync" -> 2 [] wpc = "signal" -> 3 [] wpc = "recv" -> 4
                         [] OTHER -> 5)
RECURSIVE SumRanks(_, _)
SumRanks(n, m) ==
    (IF n = 0 THEN 0 ELSE ProducerRank(n) + SumRanks(n - 1, 0))
        + (IF m = 0 THEN 0 ELSE CloserRank(m) + SumRanks(0, m - 1))
Progress == SumRanks(NumProducers, NumClosers) + WorkerRank

(***************************************************************************)
(* C34.  Writer is deadlock-free: under weak fairness of all threads and   *)
(* assuming every segment-store operation returns, for any number of       *)
(* producers, any queue capacity >= 0 (including an unbuffered queue) and  *)
(* any interleaving with Close calls, every Write call and every Close     *)
(* call eventually returns; the worker never blocks when signaling a       *)
(* completion.  Every step moves one thread forward, so a fair behaviour   *)
(* ends in a state where no thread inside a call can step; unless the      *)
(* store hangs, no thread is inside a call in such a state.                *)
(***************************************************************************)
C34_WriterDeadlockFree ==
    /\ []((AllBlocked /\ ~StoreHangs) =>
            /\ \A p \in Producers : pc[p] = "idle"
            /\ \A c \in Closers : cpc[c] \in {"idle", "returned"}
            /\ \A c \in Calls : passed[c] => result[c] # "none")
    /\ [][Progress' > Progress]_vars
    /\ [](wpc \in {"writeactive", "fn"} => reqDone[wreq] = <<>>)
    /\ []((wpc \in {"sync", "signal"} /\ ~hasErr) => reqDone[wreq] = <<>>)
    /\ [](\A c \in Calls : Len(reqDone[c]) <= 1)

(* On an unbuffered queue a Write that failed in Encode and a Write that
   succeeded have both returned, and so have both Close calls. *)
C34_Witness ==
    /\ cap = 0
    /\ AllBlocked
    /\ \A c \in Closers : cpc[c] = "returned"
    /\ \E a, b \in Calls : result[a] = ErrIO /\ result[b] = ErrNil
    /\ \A p \in Producers : pc[p] = "idle" /\ calls[p] >= 1


(* The Close call that shut the single-file writer down has returned. *)
WalClosed == ~o_fopen

(* The records a reader opened on WAL.log yields. *)
WalRead == ReadLogs(NewFile(o_file.data, FALSE), <<>>).logs

(***************************************************************************)
(* C40.  Single-file writer does not lose accepted records: in the WAL.log *)
(* writer of src/wal/wal_writer.go, for any interleaving of Write and      *)
(* Close calls, every Write call that returns nil has its record encoded   *)
(* and fsynced into WAL.log by the time Close returns (so a reader opened  *)
(* after Close yields it); a Write whose record will not be written        *)
(* returns Closed.                                                         *)
(***************************************************************************)
C40_NoAcceptedRecordLost ==
    WalClosed =>
        \A c \in Calls :
            o_res[c] = ErrNil => \E i \in 1..Len(WalRead) : WalRead[i] = Record(c)

=============================================================================
